---- MODULE Spec2Model ----
(***************************************************************************)
(* Item lifecycle store, page association and clipboard export of the      *)
(* AssetConnect browser extension.                                         *)
(*                                                                         *)
(* One content-script tab (StorageManager + UIManager + ClipboardManager + *)
(* PageParser), the JSON import page and the background start-up cleanup   *)
(* share the persisted collection chrome.storage.local['boothItems'].      *)
(* A handler is one action; every storage call a handler makes can fail    *)
(* (chrome.runtime.lastError), chosen by the set F of failing call numbers.*)
(***************************************************************************)
EXTENDS Integers, Sequences, FiniteSets, TLC

\* ---------------------------------------------------------------- bounds
MaxId == 2          \* number of distinct marketplace item ids
MaxFaults == 1      \* storage calls that fail in one behaviour
MaxScan == 2        \* item-URL occurrences in the scanned root element
MaxImport == 1      \* items in an imported JSON file

\* ------------------------------------------------------------ value sets
\* Item ids are numeric strings; JavaScript enumerates such keys of an object
\* in ascending numeric order, which is the order of AllIds.
AllIds == <<"1", "2", "3", "4", "5">>
Ids == {AllIds[k] : k \in 1..MaxId}
Names == {"a"}
Undefined == "undefined"
Categories == {"unsaved", "saved", "excluded", "permanentlyExcluded"}

\* Object.values / Object.entries order of the keys in S
SortedIds(S) == SelectSeq(AllIds, LAMBDA x : x \in S)

Range(sq) == {sq[k] : k \in DOMAIN sq}

\* Sequences over S of length at most n
RECURSIVE SeqsUpTo(_, _)
SeqsUpTo(S, n) ==
  IF n = 0 THEN {<<>>}
  ELSE LET shorter == SeqsUpTo(S, n - 1)
       IN shorter \cup {Append(sq, x) : sq \in {t \in shorter : Len(t) = n - 1}, x \in S}

\* Storage calls of one handler are numbered 1, 2, ...; F is the set that fails.

\* ----------------------------------------------------------------- state
VARIABLES
  store,      \* chrome.storage.local['boothItems']: id -> item record
  page,       \* currentItemId of the page open in the tab (Undefined: none)
  content,    \* parseResult.externalItems of the page open in the tab
  rows,       \* rows shown in the management window
  found,      \* window.boothItemsToFetch still listed in the notification
  pending,    \* nameEditTimeouts: id -> name of the armed debounce timer
  faults,     \* number of storage calls that have failed so far
  origin,     \* history: what an excluded item was when it was excluded
  lastOp,     \* history: the handler that ran last and what it returned
  relay,      \* handleBackgroundFetch: id -> the call made for that item
  downloadHistory, \* chrome.storage.local['downloadHistory']: list of entries
  calls,      \* StorageManager calls in progress: writer -> its call
  typing      \* name inputs of the window: clock, debounce timers, writes made

vars == <<store, page, content, rows, found, pending, faults, origin, lastOp, relay,
          downloadHistory, calls, typing>>

EmptyStore == [i \in {} |-> Undefined]

\* an item as stored: a missing optional field is Undefined
Item(id, name, category, cpid, prev) ==
  [id |-> id, name |-> name, category |-> category,
   currentPageId |-> cpid, previousCategory |-> prev]

\* the argument object of saveItem / updateItem
Data(name, category, cpid, prev) ==
  [name |-> name, category |-> category,
   currentPageId |-> cpid, previousCategory |-> prev]

Put(s, id, item) == [i \in DOMAIN s \cup {id} |-> IF i = id THEN item ELSE s[i]]
Remove(s, id) == [i \in DOMAIN s \ {id} |-> s[i]]

\* --------------------------------------------------------- StorageManager
\* getAllItems: a failed read is caught and {} is returned
getAllItems(s, fail) == IF fail THEN EmptyStore ELSE s

\* the null that getItem returns for an id that is not stored
Null == [id |-> "null"]

\* getItem: a failed read is caught and null is returned
getItem(s, itemId, fail) ==
  IF fail \/ itemId \notin DOMAIN s THEN Null ELSE s[itemId]

\* a field value that is null: not undefined, and falsy
JsNull == "null"

\* JavaScript truthiness of a field value
Truthy(v) == v \notin {Undefined, JsNull, ""}

\* the record saveItem builds (minimalItem)
MinimalItem(itemId, d) ==
  LET cat == IF Truthy(d.category) THEN d.category ELSE "unsaved"
  IN Item(itemId, d.name, cat,
          IF Truthy(d.currentPageId) /\ cat \in {"unsaved", "excluded"}
            THEN d.currentPageId ELSE Undefined,
          IF cat = "excluded" /\ Truthy(d.previousCategory)
            THEN d.previousCategory ELSE Undefined)

\* saveItem: calls k+1 (getAllItems) and k+2 (set)
saveItem(s, itemId, d, F, k) ==
  LET existingData == getAllItems(s, (k + 1) \in F)
  IN IF (k + 2) \in F
       THEN [store |-> s, ok |-> FALSE]
       ELSE [store |-> Put(existingData, itemId, MinimalItem(itemId, d)), ok |-> TRUE]

\* the record updateItem builds when the id is not stored (newItem)
NewItem(itemId, u) ==
  LET cat == IF Truthy(u.category) THEN u.category ELSE "unsaved"
  IN Item(itemId, IF Truthy(u.name) THEN u.name ELSE "", cat,
          IF Truthy(u.currentPageId) /\ cat \in {"unsaved", "excluded"}
            THEN u.currentPageId ELSE Undefined,
          IF cat = "excluded" /\ Truthy(u.previousCategory)
            THEN u.previousCategory ELSE Undefined)

\* the record updateItem builds when the id is stored (updatedItem)
UpdatedItem(itemId, e, u) ==
  LET cat == IF u.category # Undefined THEN u.category ELSE e.category
  IN Item(itemId, IF u.name # Undefined THEN u.name ELSE e.name, cat,
          IF cat \in {"unsaved", "excluded"}
            THEN (IF u.currentPageId # Undefined THEN u.currentPageId
                  ELSE IF Truthy(e.currentPageId) THEN e.currentPageId
                  ELSE Undefined)
            ELSE Undefined,
          IF cat = "excluded"
            THEN (IF Truthy(u.previousCategory) THEN u.previousCategory
                  ELSE e.previousCategory)
            ELSE Undefined)

\* updateItem: calls k+1 (getItem), k+2 (getAllItems) and k+3 (set)
updateItem(s, itemId, u, F, k) ==
  LET existingItem == getItem(s, itemId, (k + 1) \in F)
      written == IF existingItem = Null THEN NewItem(itemId, u)
                 ELSE UpdatedItem(itemId, existingItem, u)
      allItems == getAllItems(s, (k + 2) \in F)
  IN IF (k + 3) \in F
       THEN [store |-> s, ok |-> FALSE]
       ELSE [store |-> Put(allItems, itemId, written), ok |-> TRUE]

\* deleteItem: calls k+1 (getAllItems) and k+2 (set)
deleteItem(s, itemId, F, k) ==
  LET allItems == getAllItems(s, (k + 1) \in F)
  IN IF (k + 2) \in F
       THEN [store |-> s, ok |-> FALSE]
       ELSE [store |-> Remove(allItems, itemId), ok |-> TRUE]

\* getItemsForCurrentPage: the ids it returns (the records are the stored ones)
getItemsForCurrentPage(s, currentPageId, fail) ==
  LET allItems == getAllItems(s, fail)
  IN {i \in DOMAIN allItems :
        \/ allItems[i].category = "saved"
        \/ /\ allItems[i].category \in {"unsaved", "excluded"}
           /\ allItems[i].currentPageId = currentPageId}

\* hasItem: getItem(...) !== null
hasItem(s, itemId, fail) == getItem(s, itemId, fail) # Null

\* getPermanentlyExcludedItemIds (called by handlePageAnalysis)
getPermanentlyExcludedItemIds(s, fail) ==
  LET allItems == getAllItems(s, fail)
  IN {i \in DOMAIN allItems : allItems[i].category = "permanentlyExcluded"}

\* ------------------------------------------------------------- PageParser
\* extractBoothItemUrls: occurrences de-duplicated by id, first one kept
RECURSIVE extractBoothItemUrls(_)
extractBoothItemUrls(occ) ==
  IF occ = <<>> THEN <<>>
  ELSE LET front == extractBoothItemUrls(SubSeq(occ, 1, Len(occ) - 1))
           last == occ[Len(occ)]
       IN IF last \in Range(front) THEN front ELSE Append(front, last)

\* parsePageForBoothItems(...).externalItems: the page's own id filtered out
externalItems(occ, currentItemId) ==
  SelectSeq(extractBoothItemUrls(occ), LAMBDA x : x # currentItemId)

\* pageItemIds: the page's own id and every external id scanned on the page
getPageItemIds(external, currentItemId) == {currentItemId} \cup Range(external)

\* -------------------------------------------------------------- UIManager
\* a row of the management window: its section, and the restore button's
\* data-original-category where generateEntityButtons renders that button
generateEntityButtons(sectionId, entityData) ==
  IF sectionId \in {"excluded", "permanentlyExcluded"}
    THEN (IF entityData.previousCategory = Undefined THEN "unsaved"
          ELSE entityData.previousCategory)
    ELSE Undefined

addItemToSection(sectionId, item) ==
  [id |-> item.id, section |-> sectionId, orig |-> generateEntityButtons(sectionId, item)]

\* fetchAndDisplayItems (refreshItemDisplay on the items tab): one storage read
fetchAndDisplayItems(s, currentItemId, external, fail) ==
  LET pageItemIds == getPageItemIds(external, currentItemId)
      pageItems == getItemsForCurrentPage(s, currentItemId, fail)
  IN {addItemToSection(s[i].category, s[i]) : i \in pageItems \cap pageItemIds}

\* loadExistingItems: the same selection, made at page load
loadExistingItems(s, currentItemId, external, fail) ==
  LET pageItemIds == getPageItemIds(external, currentItemId)
      pageItems == getItemsForCurrentPage(s, currentItemId, fail)
  IN {addItemToSection(s[i].category, s[i]) : i \in pageItems \cap pageItemIds}

\* checkAndDisplayCurrentPageItem: the page's own item is added when it is
\* stored and has no row yet
checkAndDisplayCurrentPageItem(shown, s, currentItemId, fail) ==
  LET existingItem == getItem(s, currentItemId, fail)
  IN IF existingItem # Null /\ ~(\E r \in shown : r.id = currentItemId)
       THEN shown \cup {addItemToSection(existingItem.category, existingItem)}
       ELSE shown

\* handlePageAnalysis, the list offered for fetching: scanned ids that are
\* neither permanently excluded nor stored; hasItem is call k+1 for the
\* first id that is looked up, k+2 for the next, ...
RECURSIVE newItemsToFetch(_, _, _, _, _)
newItemsToFetch(s, todo, permanentlyExcludedIds, F, k) ==
  IF todo = <<>> THEN <<>>
  ELSE LET item == Head(todo)
       IN IF item \in permanentlyExcludedIds
            THEN newItemsToFetch(s, Tail(todo), permanentlyExcludedIds, F, k)
            ELSE LET rest == newItemsToFetch(s, Tail(todo), permanentlyExcludedIds, F, k + 1)
                 IN IF hasItem(s, item, (k + 1) \in F) THEN rest ELSE <<item>> \o rest

\* ---------------------------------------------------------------- history
NoOrigin == [category |-> "none", currentPageId |-> Undefined]

\* origin after a handler took the store from s to s2; excluded is the id a
\* successful handleEntityExclude acted on (Undefined for other handlers)
NextOrigin(s, s2, excluded) ==
  [i \in Ids |->
     IF i \notin DOMAIN s2 \/ s2[i].category \notin {"excluded", "permanentlyExcluded"}
       THEN NoOrigin
     ELSE IF i \in DOMAIN s /\ s[i].category \in {"excluded", "permanentlyExcluded"}
       THEN origin[i]
     ELSE IF i = excluded /\ i \in DOMAIN s
       THEN [category |-> s[i].category, currentPageId |-> s[i].currentPageId]
     ELSE NoOrigin]

\* lastOp: handler and its result; for an export the ids written to the
\* clipboard, the ids exported while unsaved, how the clipboard write ended,
\* persistenceResult.success, persistenceResult.failedItems, result.itemCount
\* and whether result.warning is set; for a startup the number of items the
\* cleanup removed; drawn: the handler ended by (re)drawing the item sections
Op(kind, ok) ==
  [kind |-> kind, ok |-> ok, copied |-> {}, newIds |-> {},
   clipboard |-> "none", persisted |-> FALSE, failed |-> {}, itemCount |-> 0,
   warning |-> FALSE, removed |-> 0, drawn |-> FALSE]

\* the value of a promise that is not resolved
NoValue == [success |-> FALSE, name |-> Undefined, error |-> Undefined]

\* relay[id] when handleBackgroundFetch has not been called for item id: no
\* promise, no timer, no message to the background script
NoCall == [promise |-> "none", value |-> NoValue, timer |-> "none", delay |-> 0,
           message |-> "none"]

\* the contexts whose StorageManager calls can be in progress at once: two
\* tabs, a tab and the background script, or two handlers of one tab
Writers == {"A", "B"}

\* calls[w] when writer w has made no call
NotCalled ==
  [method |-> "none", itemId |-> Undefined,
   data |-> Data(Undefined, Undefined, Undefined, Undefined), pc |-> "idle",
   existingItem |-> Null, allItems |-> EmptyStore, ret |-> FALSE, made |-> 0]

\* typing before any name input: the clock at 0, no input event yet, no timer
\* armed, nameEditTimeouts empty, no timer callback running, nothing written
NotTyped ==
  [now |-> 0, edits |-> <<>>, timers |-> {}, nameEditTimeouts |-> EmptyStore,
   running |-> {}, writes |-> <<>>]

\* ------------------------------------------------------------------ Init
Init ==
  /\ store = EmptyStore
  /\ page = Undefined
  /\ content = <<>>
  /\ rows = {}
  /\ found = <<>>
  /\ pending = EmptyStore
  /\ faults = 0
  /\ origin = [i \in Ids |-> NoOrigin]
  /\ lastOp = Op("install", TRUE)
  /\ relay = [i \in Ids |-> NoCall]
  /\ downloadHistory = <<>>
  /\ calls = [w \in Writers |-> NotCalled]
  /\ typing = NotTyped

\* --------------------------------------------------------------- actions
\* A behaviour is followed up to the end of the handler in which the
\* MaxFaults-th storage call fails.
Running == faults < MaxFaults

\* the handler's storage calls in F fail
Calls(F) ==
  /\ faults + Cardinality(F) <= MaxFaults
  /\ faults' = faults + Cardinality(F)

\* handlePageAnalysis: a page is loaded in the tab. Calls: 1 loadExistingItems,
\* 2 checkAndDisplayCurrentPageItem, 3 getPermanentlyExcludedItemIds, 4.. hasItem
Navigate(p, occ, F) ==
  LET itemsToFetch == externalItems(occ, p)
      shown == loadExistingItems(store, p, itemsToFetch, 1 \in F)
  IN /\ page' = p
     /\ content' = itemsToFetch
     /\ rows' = checkAndDisplayCurrentPageItem(shown, store, p, 2 \in F)
     /\ found' = IF itemsToFetch = <<>> THEN <<>>
                 ELSE newItemsToFetch(store, itemsToFetch,
                                      getPermanentlyExcludedItemIds(store, 3 \in F), F, 3)
     /\ pending' = EmptyStore
     /\ lastOp' = [Op("load", TRUE) EXCEPT !.drawn = TRUE]
     /\ Calls(F)
     /\ UNCHANGED <<store, origin, relay, downloadHistory, calls, typing>>

\* handleEntityNameEdit: arms (re-arms) the debounce timer of the row's item
NameEdit(id, newName) ==
  /\ \E r \in rows : r.id = id
  /\ pending' = Put(pending, id, newName)
  /\ lastOp' = Op("nameEdit", TRUE)
  /\ UNCHANGED <<store, page, content, rows, found, faults, origin, relay, downloadHistory, calls, typing>>

\* the debounce timer fires: updateItem(id, {name}) (calls 1..3)
NameTimer(id, F) ==
  /\ id \in DOMAIN pending
  /\ LET r == updateItem(store, id, Data(pending[id], Undefined, Undefined, Undefined), F, 0)
     IN /\ store' = r.store
        /\ origin' = NextOrigin(store, r.store, Undefined)
        /\ lastOp' = Op("nameTimer", r.ok)
  /\ pending' = Remove(pending, id)
  /\ Calls(F)
  /\ UNCHANGED <<page, content, rows, found, relay, downloadHistory, calls, typing>>

\* handleEntityExclude on a row of the saved or unsaved section
\* (calls 1..3 updateItem, 4 refreshItemDisplay)
Exclude(id, F) ==
  \E row \in rows :
    /\ row.id = id
    /\ row.section \in {"saved", "unsaved"}
    /\ LET r == updateItem(store, id, Data(Undefined, "excluded", page, row.section), F, 0)
       IN /\ store' = r.store
          /\ origin' = NextOrigin(store, r.store, IF r.ok THEN id ELSE Undefined)
          /\ rows' = IF r.ok THEN fetchAndDisplayItems(r.store, page, content, 4 \in F)
                     ELSE rows
          /\ lastOp' = [Op("exclude", r.ok) EXCEPT !.drawn = r.ok]
    /\ Calls(F)
  /\ UNCHANGED <<page, content, found, pending, relay, downloadHistory, calls, typing>>

\* handleEntityRestore on a row of the excluded or permanentlyExcluded section
\* (calls 1..3 updateItem, 4 refreshItemDisplay)
Restore(id, F) ==
  \E row \in rows :
    /\ row.id = id
    /\ row.section \in {"excluded", "permanentlyExcluded"}
    /\ LET currentPageId == IF row.orig = "unsaved" THEN page ELSE Undefined
           r == updateItem(store, id, Data(Undefined, row.orig, currentPageId, Undefined), F, 0)
       IN /\ store' = r.store
          /\ origin' = NextOrigin(store, r.store, Undefined)
          /\ rows' = IF r.ok THEN fetchAndDisplayItems(r.store, page, content, 4 \in F)
                     ELSE rows
          /\ lastOp' = [Op("restore", r.ok) EXCEPT !.drawn = r.ok]
    /\ Calls(F)
  /\ UNCHANGED <<page, content, found, pending, relay, downloadHistory, calls, typing>>

\* handleEntityPermanentlyExclude on a row of the excluded section
\* (call 1 getItem, calls 2..4 updateItem, 5 refreshItemDisplay)
PermanentlyExclude(id, F) ==
  \E row \in rows :
    /\ row.id = id
    /\ row.section = "excluded"
    /\ LET currentEntity == getItem(store, id, 1 \in F)
           previousCategory ==
             IF currentEntity = Null THEN "unsaved"
             ELSE IF currentEntity.previousCategory # Undefined
               THEN currentEntity.previousCategory
             ELSE currentEntity.category
           r == updateItem(store, id,
                           Data(Undefined, "permanentlyExcluded", Undefined, previousCategory),
                           F, 1)
       IN /\ store' = r.store
          /\ origin' = NextOrigin(store, r.store, Undefined)
          /\ rows' = IF r.ok THEN fetchAndDisplayItems(r.store, page, content, 5 \in F)
                     ELSE rows
          /\ lastOp' = [Op("permanentlyExclude", r.ok) EXCEPT !.drawn = r.ok]
    /\ Calls(F)
  /\ UNCHANGED <<page, content, found, pending, relay, downloadHistory, calls, typing>>

\* ------------------------------------------------------- ClipboardManager
\* Tally without results.failedItems.push
TallyForgettingFailures(acc, id, r, n) ==
  [store |-> r.store, failed |-> acc.failed,
   count |-> IF r.ok THEN acc.count + 1 ELSE acc.count,
   k |-> acc.k + n]

\* processPostExportActions keeps acc = [store, failed, count, k]: the store,
\* results.failedItems, results.successCount and the storage calls made so
\* far; Tally is acc after the call for id returned r, having made n calls
Tally(acc, id, r, n) ==
  [store |-> r.store,
   failed |-> IF r.ok THEN acc.failed ELSE acc.failed \cup {id},
   count |-> IF r.ok THEN acc.count + 1 ELSE acc.count,
   k |-> acc.k + n]

\* the timestamp processPostExportActions takes when it starts
Timestamp == "timestamp"

\* item.exportCount || 0
exportCountOf(item) ==
  IF "exportCount" \in DOMAIN item THEN item.exportCount ELSE 0

\* the updateData processPostExportActions builds for an exported unsaved item
updateData(item) ==
  [name |-> Undefined, category |-> "saved", lastExported |-> Timestamp,
   exportCount |-> exportCountOf(item) + 1, currentPageId |-> Undefined,
   previousCategory |-> Undefined]

\* processPostExportActions, step 1: each exported unsaved item, as read into
\* allItems before the export, is updated to saved (3 calls per item)
RECURSIVE promoteNewItems(_, _, _, _)
promoteNewItems(acc, newItems, allItems, F) ==
  IF newItems = <<>> THEN acc
  ELSE promoteNewItems(
         Tally(acc, Head(newItems),
               updateItem(acc.store, Head(newItems),
                          updateData(allItems[Head(newItems)]), F, acc.k),
               3),
         Tail(newItems), allItems, F)

\* processPostExportActions, steps 2 and 3: deleteItem per id (2 calls each)
RECURSIVE deleteItems(_, _, _)
deleteItems(acc, ids, F) ==
  IF ids = <<>> THEN acc
  ELSE deleteItems(
         Tally(acc, Head(ids), deleteItem(acc.store, Head(ids), F, acc.k), 2),
         Tail(ids), F)

\* processPostExportActions, step 3: the editing items of other pages, out of
\* the collection read after steps 1 and 2
otherPageItems(allItems, currentPageId) ==
  {i \in DOMAIN allItems :
     /\ allItems[i].category \in {"unsaved", "excluded"}
     /\ Truthy(allItems[i].currentPageId)
     /\ allItems[i].currentPageId # currentPageId}

\* processPostExportActions, step 3: one read (call acc.k + 1), then the deletes
purgeOtherPages(acc, currentPageId, F) ==
  deleteItems([acc EXCEPT !.k = acc.k + 1],
              SortedIds(otherPageItems(getAllItems(acc.store, (acc.k + 1) \in F),
                                       currentPageId)),
              F)

\* the results object processPostExportActions returns
postExportResults(acc) ==
  [store |-> acc.store, success |-> acc.failed = {}, successCount |-> acc.count,
   failedItems |-> acc.failed, k |-> acc.k]

\* processPostExportActions; k storage calls were made before it
processPostExportActions(s, newItems, excludedItems, allItems, currentPageId, F, k) ==
  postExportResults(
    purgeOtherPages(
      deleteItems(
        promoteNewItems([store |-> s, failed |-> {}, count |-> 0, k |-> k],
                        newItems, allItems, F),
        excludedItems, F),
      currentPageId, F))

\* exportItems without the restriction to the ids on the page
exportItemsOfAllPages(allItems, currentItemId, external) ==
  {i \in DOMAIN allItems : allItems[i].category \in {"saved", "unsaved"}}

\* the items exportSavedAndNewItems formats for the clipboard, out of the
\* collection it read
exportItems(allItems, currentItemId, external) ==
  LET pageItemIds == getPageItemIds(external, currentItemId)
      pageItems == DOMAIN allItems \cap pageItemIds
      savedItems == {i \in pageItems : allItems[i].category = "saved"}
      newItems == {i \in pageItems : allItems[i].category = "unsaved"}
  IN savedItems \cup newItems

\* what exportSavedAndNewItems returns once the clipboard write succeeded and
\* processPostExportActions returned p
exported(p, toCopy, newItems) ==
  [store |-> p.store, success |-> TRUE, copied |-> toCopy, newIds |-> newItems,
   clipboard |-> "ok", persisted |-> p.success, successCount |-> p.successCount,
   failedItems |-> p.failedItems, itemCount |-> Cardinality(toCopy),
   warning |-> ~p.success, k |-> p.k]

\* what exportSavedAndNewItems returns when nothing is persisted
notExported(s, clipboard) ==
  [store |-> s, success |-> FALSE, copied |-> {}, newIds |-> {},
   clipboard |-> clipboard, persisted |-> FALSE, successCount |-> 0,
   failedItems |-> {}, itemCount |-> 0, warning |-> FALSE, k |-> 1]

\* exportFrom running the post-export actions although nothing is eligible
exportFromCleaningUpEmpty(s, allItems, currentItemId, external, clipboardOk, F) ==
  LET pageItems == DOMAIN allItems \cap getPageItemIds(external, currentItemId)
      newItems == {i \in pageItems : allItems[i].category = "unsaved"}
      excludedItems == {i \in pageItems : allItems[i].category = "excluded"}
      toCopy == exportItems(allItems, currentItemId, external)
  IN IF toCopy = {}
       THEN notExported(processPostExportActions(s, SortedIds(newItems),
                                                 SortedIds(excludedItems),
                                                 allItems, currentItemId, F, 1).store, "none")
     ELSE IF ~clipboardOk THEN notExported(s, "failed")
     ELSE exported(processPostExportActions(s, SortedIds(newItems),
                                            SortedIds(excludedItems), allItems, currentItemId, F, 1),
                   toCopy, newItems)

\* exportFrom running the post-export actions before the clipboard write
exportFromPersistingFirst(s, allItems, currentItemId, external, clipboardOk, F) ==
  LET pageItems == DOMAIN allItems \cap getPageItemIds(external, currentItemId)
      newItems == {i \in pageItems : allItems[i].category = "unsaved"}
      excludedItems == {i \in pageItems : allItems[i].category = "excluded"}
      toCopy == exportItems(allItems, currentItemId, external)
  IN IF toCopy = {} THEN notExported(s, "none")
     ELSE IF ~clipboardOk
       THEN notExported(processPostExportActions(s, SortedIds(newItems),
                                                 SortedIds(excludedItems),
                                                 allItems, currentItemId, F, 1).store, "failed")
     ELSE exported(processPostExportActions(s, SortedIds(newItems),
                                            SortedIds(excludedItems), allItems, currentItemId, F, 1),
                   toCopy, newItems)

\* exportSavedAndNewItems, after call 1 (getAllItems) returned allItems
exportFrom(s, allItems, currentItemId, external, clipboardOk, F) ==
  LET pageItems == DOMAIN allItems \cap getPageItemIds(external, currentItemId)
      newItems == {i \in pageItems : allItems[i].category = "unsaved"}
      excludedItems == {i \in pageItems : allItems[i].category = "excluded"}
      toCopy == exportItems(allItems, currentItemId, external)
  IN IF toCopy = {} THEN notExported(s, "none")
     ELSE IF ~clipboardOk THEN notExported(s, "failed")
     ELSE exported(processPostExportActions(s, SortedIds(newItems),
                                            SortedIds(excludedItems), allItems, currentItemId, F, 1),
                   toCopy, newItems)

\* exportSavedAndNewItems: call 1 getAllItems, then the post-export calls
exportSavedAndNewItems(s, currentItemId, external, clipboardOk, F) ==
  exportFrom(s, getAllItems(s, 1 \in F), currentItemId, external, clipboardOk, F)

\* handleExport on the items tab, exportSavedAndNewItems having returned r; the
\* sections are redrawn when the persistence result reports success with
\* successCount > 0
handleExport(r, F) ==
  LET redraw == r.success /\ r.persisted /\ r.successCount > 0
  IN /\ store' = r.store
     /\ origin' = NextOrigin(store, r.store, Undefined)
     /\ rows' = IF redraw
                  THEN fetchAndDisplayItems(r.store, page, content, (r.k + 1) \in F)
                  ELSE rows
     /\ lastOp' = [Op("export", r.success) EXCEPT
                     !.copied = r.copied, !.newIds = r.newIds,
                     !.clipboard = r.clipboard, !.persisted = r.persisted,
                     !.failed = r.failedItems, !.itemCount = r.itemCount,
                     !.warning = r.warning, !.drawn = redraw]

\* the user presses the export button
Export(clipboardOk, F) ==
  /\ page # Undefined
  /\ handleExport(exportSavedAndNewItems(store, page, content, clipboardOk, F), F)
  /\ Calls(F)
  /\ UNCHANGED <<page, content, found, pending, relay, downloadHistory, calls, typing>>

\* validateManualInput: non-empty id, non-empty name, id of digits only
validateManualInput(itemId, itemName) ==
  /\ itemId # ""
  /\ itemName # ""
  /\ itemId \in Range(AllIds)

\* the message validateManualInput shows for a rejected input
validationError(itemId, itemName) ==
  IF itemId = "" THEN "enterItemId"
  ELSE IF itemName = "" THEN "enterItemName"
  ELSE "itemIdNumbersOnly"

\* lastOp of a manual add: the trimmed input and the message that is shown
ManualAddOp(ok, itemId, itemName, message) ==
  LET op == Op("manualAdd", ok)
      input == [itemId |-> itemId, itemName |-> itemName, message |-> message]
  IN [field \in DOMAIN op \cup DOMAIN input |->
        IF field \in DOMAIN input THEN input[field] ELSE op[field]]

\* handleModalManualAdd: call 1 getItem, calls 2..3 saveItem; detailed: the
\* history keeps the input and the message, not only the outcome
handleModalManualAdd(itemId, itemName, F, detailed) ==
  /\ page # Undefined
  /\ LET valid == validateManualInput(itemId, itemName)
         existingItem == IF valid THEN getItem(store, itemId, 1 \in F) ELSE Null
         itemData == Data(itemName, "unsaved", page, Undefined)
         r == IF valid /\ existingItem = Null
                THEN saveItem(store, itemId, itemData, F, 1)
                ELSE [store |-> store, ok |-> FALSE]
         message == IF ~valid THEN validationError(itemId, itemName)
                    ELSE IF existingItem # Null THEN "itemIdAlreadyExists"
                    ELSE IF r.ok THEN "itemAdded"
                    ELSE "itemSaveFailed"
     IN /\ store' = r.store
        /\ origin' = NextOrigin(store, r.store, Undefined)
        /\ rows' = IF r.ok
                     THEN rows \cup {addItemToSection("unsaved", MinimalItem(itemId, itemData))}
                     ELSE rows
        /\ lastOp' = IF detailed THEN ManualAddOp(r.ok, itemId, itemName, message)
                      ELSE Op("manualAdd", r.ok)
  /\ Calls(F)
  /\ UNCHANGED <<page, content, found, pending, relay, downloadHistory, calls, typing>>

ManualAdd(itemId, itemName, F) == handleModalManualAdd(itemId, itemName, F, FALSE)

ManualAddSubmitted(itemId, itemName, F) ==
  handleModalManualAdd(itemId, itemName, F, TRUE)

\* handleItemFetch: each listed item is looked up (1 call) and, when it is not
\* stored and its name was fetched, saved as unsaved for the page (2 calls);
\* fetched[id] is the name the direct or the background fetch returned, or
\* Undefined when both failed; acc = [store, rows, k, skipped, failedItems]:
\* skipped are the ids hasItem found stored
RECURSIVE fetchItems(_, _, _, _, _)
fetchItems(acc, itemsToFetch, fetched, currentItemId, F) ==
  IF itemsToFetch = <<>> THEN acc
  ELSE LET id == Head(itemsToFetch)
           exists == hasItem(acc.store, id, (acc.k + 1) \in F)
           itemData == Data(fetched[id], "unsaved", currentItemId, Undefined)
           r == saveItem(acc.store, id, itemData, F, acc.k + 1)
           next == IF exists
                     THEN [acc EXCEPT !.k = acc.k + 1, !.skipped = @ \cup {id}]
                   ELSE IF fetched[id] = Undefined
                     THEN [acc EXCEPT !.k = acc.k + 1, !.failedItems = @ \cup {id}]
                   ELSE [acc EXCEPT
                           !.store = r.store,
                           !.rows = IF r.ok
                                      THEN acc.rows \cup
                                           {addItemToSection("unsaved",
                                                             MinimalItem(id, itemData))}
                                      ELSE acc.rows,
                           !.k = acc.k + 3]
       IN fetchItems(next, Tail(itemsToFetch), fetched, currentItemId, F)

\* lastOp of a fetch: the items it was given, those it skipped and the
\* failedItems it hands to handleFailedItemsPrompt
FetchOp(itemsToFetch, skipped, failedItems) ==
  LET op == Op("fetch", TRUE)
      account == [itemsToFetch |-> itemsToFetch, skipped |-> skipped,
                  failedItems |-> failedItems]
  IN [field \in DOMAIN op \cup DOMAIN account |->
        IF field \in DOMAIN account THEN account[field] ELSE op[field]]

\* the user presses the fetch button of the found-items notification; the
\* listener is registered once per page load; detailed: the history keeps
\* the account of the items
handleItemFetch(fetched, F, detailed) ==
  /\ found # <<>>
  /\ LET r == fetchItems([store |-> store, rows |-> rows, k |-> 0, skipped |-> {},
                          failedItems |-> {}],
                         found, fetched, page, F)
     IN /\ store' = r.store
        /\ rows' = r.rows
        /\ origin' = NextOrigin(store, r.store, Undefined)
        /\ lastOp' = IF detailed THEN FetchOp(found, r.skipped, r.failedItems)
                      ELSE Op("fetch", TRUE)
  /\ found' = <<>>
  /\ Calls(F)
  /\ UNCHANGED <<page, content, pending, relay, downloadHistory, calls, typing>>

BulkFetch(fetched, F) == handleItemFetch(fetched, F, FALSE)

BulkFetchAccounted(fetched, F) == handleItemFetch(fetched, F, TRUE)

\* removeFoundItem: the user removes an id from the found-items notification
RemoveFound(id) ==
  /\ id \in Range(found)
  /\ found' = SelectSeq(found, LAMBDA x : x # id)
  /\ lastOp' = Op("removeFound", TRUE)
  /\ UNCHANGED <<store, page, content, rows, pending, faults, origin, relay, downloadHistory, calls, typing>>

\* ------------------------------------------------------------ import page
\* the property names a plain object inherits from Object.prototype, as far as
\* the id of an imported item names one: existingItems[item.id] finds the
\* inherited value where the collection has no item of that id
ObjectPrototype == {"constructor"}

\* { ...existingItem, name: item.name } of an inherited value: a function has
\* no own enumerable property, so the record has a name and nothing else
SpreadInherited(name) == Item(Undefined, name, Undefined, Undefined, Undefined)

\* handleImport, the merge loop over importData.items
RECURSIVE mergeImport(_, _, _)
mergeImport(existingItems, items, mergeMode) ==
  IF items = <<>> THEN existingItems
  ELSE LET item == Head(items)
           merged ==
             IF item.id \in DOMAIN existingItems
               THEN (IF mergeMode = "skip" THEN existingItems
                     ELSE Put(existingItems, item.id,
                              [existingItems[item.id] EXCEPT !.name = item.name]))
             ELSE IF item.id \in ObjectPrototype
               THEN (IF mergeMode = "skip" THEN existingItems
                     ELSE Put(existingItems, item.id, SpreadInherited(item.name)))
             ELSE Put(existingItems, item.id,
                      Item(item.id, item.name, "saved", Undefined, Undefined))
       IN mergeImport(merged, Tail(items), mergeMode)

\* lastOp of an import that keeps the file and the merge mode
ImportOp(ok, items, mergeMode) ==
  [kind |-> "import", ok |-> ok, items |-> items, mergeMode |-> mergeMode]

\* handleImport: call 1 reads the collection, call 2 reads it again when call 1
\* failed, call 3 writes; a failed write is not noticed
handleImport(items, mergeMode, F, detailed) ==
  /\ items # <<>>
  /\ LET readOk == ~(1 \in F) \/ ~(2 \in F)
         written == mergeImport(store, items, mergeMode)
         s2 == IF readOk /\ ~(3 \in F) THEN written ELSE store
     IN /\ store' = s2
        /\ origin' = NextOrigin(store, s2, Undefined)
        /\ lastOp' = IF detailed THEN ImportOp(readOk, items, mergeMode)
                      ELSE Op("import", readOk)
  /\ Calls(F)
  /\ UNCHANGED <<page, content, rows, found, pending, relay, downloadHistory, calls, typing>>

\* the import as the other handlers see it
JsonImport(items, mergeMode, F) == handleImport(items, mergeMode, F, FALSE)

\* the import with its file and merge mode kept in the history
JsonImportFile(items, mergeMode, F) == handleImport(items, mergeMode, F, TRUE)

\* ------------------------------------------------------------- background
\* cleanupAllEditingItems keeping the saved items only
cleanupKeepingSavedOnly(s, F) ==
  LET cleanedItems == [i \in {j \in DOMAIN s : s[j].category = "saved"} |-> s[i]]
  IN IF 1 \in F \/ 2 \in F THEN s ELSE cleanedItems

\* cleanupAllEditingItems: call 1 reads, call 2 writes when something was removed
cleanupAllEditingItems(s, F) ==
  LET cleanedItems == [i \in {j \in DOMAIN s : s[j].category \notin {"unsaved", "excluded"}}
                         |-> s[i]]
      removedCount == Cardinality(DOMAIN s \ DOMAIN cleanedItems)
  IN IF 1 \in F THEN s
     ELSE IF removedCount > 0 /\ ~(2 \in F) THEN cleanedItems
     ELSE s

\* chrome.runtime.onStartup: the browser starts, no page is loaded yet
BrowserStartup(F) ==
  /\ store' = cleanupAllEditingItems(store, F)
  /\ origin' = NextOrigin(store, store', Undefined)
  /\ page' = Undefined
  /\ content' = <<>>
  /\ rows' = {}
  /\ found' = <<>>
  /\ pending' = EmptyStore
  /\ Calls(F)
  /\ lastOp' = [Op("startup", ~(1 \in F) /\ ~(2 \in F)) EXCEPT
                  !.removed = Cardinality(DOMAIN store \ DOMAIN store')]
  /\ UNCHANGED <<relay, downloadHistory, calls, typing>>

ImportItems == [id : Ids, name : Names]

\* what validateAndPreviewData lets through: any non-empty id and name
ValidItems == [id : Ids \cup ObjectPrototype, name : Names \cup {"b"}]

\* ------------------------------------------------------- next-state relation
\* the sets of failing calls offered to a handler that makes at most n
\* storage calls: none when every storage call succeeds, ...
NoFaults(n) == {{}}

\* ... or up to MaxFaults of them
SomeFaults(n) == {F \in SUBSET (1..n) : Cardinality(F) <= MaxFaults}

\* every storage call succeeds
Next ==
  \/ /\ Running
     /\ \E p \in Ids, occ \in SeqsUpTo(Ids, MaxScan), F \in NoFaults(3 + MaxId) :
          Navigate(p, occ, F)
  \/ /\ Running
     /\ \E id \in Ids, n \in Names : NameEdit(id, n)
  \/ /\ Running
     /\ \E id \in Ids, F \in NoFaults(3) : NameTimer(id, F)
  \/ /\ Running
     /\ \E id \in Ids, F \in NoFaults(4) : Exclude(id, F)
  \/ /\ Running
     /\ \E id \in Ids, F \in NoFaults(4) : Restore(id, F)
  \/ /\ Running
     /\ \E id \in Ids, F \in NoFaults(5) : PermanentlyExclude(id, F)
  \/ /\ Running
     /\ \E ok \in BOOLEAN, F \in NoFaults(3 + 3 * MaxId) : Export(ok, F)
  \/ /\ Running
     /\ \E id \in Ids \cup {"", "abc"}, n \in Names \cup {""}, F \in NoFaults(3) :
          ManualAdd(id, n, F)
  \/ /\ Running
     /\ \E fetched \in [Ids -> Names \cup {Undefined}], F \in NoFaults(3 * MaxId) :
          BulkFetch(fetched, F)
  \/ /\ Running
     /\ \E id \in Ids : RemoveFound(id)
  \/ /\ Running
     /\ \E items \in SeqsUpTo(ImportItems, MaxImport), mode \in {"skip", "replace"},
           F \in NoFaults(3) : JsonImport(items, mode, F)
  \/ /\ Running
     /\ \E F \in NoFaults(2) : BrowserStartup(F)

\* storage calls may fail
NextFaults ==
  \/ /\ Running
     /\ \E p \in Ids, occ \in SeqsUpTo(Ids, MaxScan), F \in SomeFaults(3 + MaxId) :
          Navigate(p, occ, F)
  \/ /\ Running
     /\ \E id \in Ids, n \in Names : NameEdit(id, n)
  \/ /\ Running
     /\ \E id \in Ids, F \in SomeFaults(3) : NameTimer(id, F)
  \/ /\ Running
     /\ \E id \in Ids, F \in SomeFaults(4) : Exclude(id, F)
  \/ /\ Running
     /\ \E id \in Ids, F \in SomeFaults(4) : Restore(id, F)
  \/ /\ Running
     /\ \E id \in Ids, F \in SomeFaults(5) : PermanentlyExclude(id, F)
  \/ /\ Running
     /\ \E ok \in BOOLEAN, F \in SomeFaults(3 + 3 * MaxId) : Export(ok, F)
  \/ /\ Running
     /\ \E id \in Ids \cup {"", "abc"}, n \in Names \cup {""}, F \in SomeFaults(3) :
          ManualAdd(id, n, F)
  \/ /\ Running
     /\ \E fetched \in [Ids -> Names \cup {Undefined}], F \in SomeFaults(3 * MaxId) :
          BulkFetch(fetched, F)
  \/ /\ Running
     /\ \E id \in Ids : RemoveFound(id)
  \/ /\ Running
     /\ \E items \in SeqsUpTo(ImportItems, MaxImport), mode \in {"skip", "replace"},
           F \in SomeFaults(3) : JsonImport(items, mode, F)
  \/ /\ Running
     /\ \E F \in SomeFaults(2) : BrowserStartup(F)

Spec == Init /\ [][Next]_vars
SpecFaults == Init /\ [][NextFaults]_vars

\* the manual add with its input kept in the history, among the handlers that
\* bring items of every category into the store
NextManualAdd ==
  \/ /\ Running
     /\ \E p \in Ids, occ \in SeqsUpTo(Ids, MaxScan), F \in SomeFaults(3 + MaxId) :
          Navigate(p, occ, F)
  \/ /\ Running
     /\ \E id \in Ids, F \in SomeFaults(4) : Exclude(id, F)
  \/ /\ Running
     /\ \E id \in Ids, F \in SomeFaults(5) : PermanentlyExclude(id, F)
  \/ /\ Running
     /\ \E items \in SeqsUpTo(ImportItems, MaxImport), mode \in {"skip", "replace"},
           F \in SomeFaults(3) : JsonImport(items, mode, F)
  \/ /\ Running
     /\ \E id \in Ids \cup {"", "abc"}, n \in Names \cup {""}, F \in SomeFaults(3) :
          ManualAddSubmitted(id, n, F)

SpecManualAdd == Init /\ [][NextManualAdd]_vars

\* the import with its file kept in the history, among the handlers that bring
\* items of every category into the store
NextImport ==
  \/ /\ Running
     /\ \E p \in Ids, occ \in SeqsUpTo(Ids, MaxScan), F \in SomeFaults(3 + MaxId) :
          Navigate(p, occ, F)
  \/ /\ Running
     /\ \E id \in Ids, F \in SomeFaults(4) : Exclude(id, F)
  \/ /\ Running
     /\ \E id \in Ids, F \in SomeFaults(5) : PermanentlyExclude(id, F)
  \/ /\ Running
     /\ \E items \in SeqsUpTo(ValidItems, MaxImport), mode \in {"skip", "replace"},
           F \in SomeFaults(3) : JsonImportFile(items, mode, F)

SpecImport == Init /\ [][NextImport]_vars

\* the fetch of the found items with its account kept in the history, among
\* the handlers that load a page and bring items into the store
NextItemFetch ==
  \/ /\ Running
     /\ \E p \in Ids, occ \in SeqsUpTo(Ids, MaxScan), F \in SomeFaults(3 + MaxId) :
          Navigate(p, occ, F)
  \/ /\ Running
     /\ \E id \in Ids : RemoveFound(id)
  \/ /\ Running
     /\ \E items \in SeqsUpTo(ImportItems, MaxImport), mode \in {"skip", "replace"},
           F \in SomeFaults(3) : JsonImport(items, mode, F)
  \/ /\ Running
     /\ \E fetched \in [Ids -> Names \cup {Undefined}], F \in SomeFaults(3 * MaxId) :
          BulkFetchAccounted(fetched, F)

SpecItemFetch == Init /\ [][NextItemFetch]_vars

\* ------------------------------------------- the StorageManager on its own
\* the updateData objects handed to updateItem; currentPageId is null when
\* the caller's currentItemId is
TestData ==
  [name : {Undefined, "a"}, category : {Undefined, "saved", "excluded"},
   currentPageId : {Undefined, JsNull, "1"}, previousCategory : {"saved"}]

\* the itemData objects handed to saveItem: they have a name
SaveData == {d \in TestData : d.name # Undefined}

\* lastOp after a direct call of a StorageManager method: the method, its
\* arguments, the storage calls of it that failed and what it returned
Called(kind, itemId, data, F, ret) ==
  [kind |-> kind, itemId |-> itemId, data |-> data, F |-> F, ret |-> ret]

\* a write method returned r
Written(kind, itemId, data, F, r) ==
  /\ store' = r.store
  /\ lastOp' = Called(kind, itemId, data, F, r.ok)
  /\ UNCHANGED <<page, content, rows, found, pending, faults, origin, relay, downloadHistory, calls, typing>>

\* a read method returned ret
Returned(kind, itemId, fail, ret) ==
  /\ lastOp' = Called(kind, itemId, Undefined, IF fail THEN {1} ELSE {}, ret)
  /\ UNCHANGED <<store, page, content, rows, found, pending, faults, origin, relay, downloadHistory, calls, typing>>

saveItemCall(itemId, d, F) ==
  Written("saveItem", itemId, d, F, saveItem(store, itemId, d, F, 0))

updateItemCall(itemId, u, F) ==
  Written("updateItem", itemId, u, F, updateItem(store, itemId, u, F, 0))

deleteItemCall(itemId, F) ==
  Written("deleteItem", itemId, Undefined, F, deleteItem(store, itemId, F, 0))

getItemCall(itemId, fail) ==
  Returned("getItem", itemId, fail, getItem(store, itemId, fail))

getAllItemsCall(fail) ==
  Returned("getAllItems", Undefined, fail, getAllItems(store, fail))

getItemsForCurrentPageCall(currentPageId, fail) ==
  Returned("getItemsForCurrentPage", currentPageId, fail,
           getItemsForCurrentPage(store, currentPageId, fail))

\* any method is called with any arguments, and up to MaxFaults of its
\* storage calls fail
NextStorage ==
  \/ /\ page = Undefined
     /\ \E itemId \in Ids, d \in SaveData, F \in SomeFaults(2) : saveItemCall(itemId, d, F)
  \/ /\ page = Undefined
     /\ \E itemId \in Ids, u \in TestData, F \in SomeFaults(3) : updateItemCall(itemId, u, F)
  \/ /\ page = Undefined
     /\ \E itemId \in Ids, F \in SomeFaults(2) : deleteItemCall(itemId, F)
  \/ /\ page = Undefined
     /\ \E itemId \in Ids, fail \in BOOLEAN : getItemCall(itemId, fail)
  \/ /\ page = Undefined
     /\ \E fail \in BOOLEAN : getAllItemsCall(fail)
  \/ /\ page = Undefined
     /\ \E currentPageId \in Ids, fail \in BOOLEAN :
          getItemsForCurrentPageCall(currentPageId, fail)

SpecStorage == Init /\ [][NextStorage]_vars

\* ----------------------------------------------- the PageParser on its own
\* The scanned root is its text, a sequence of item-URL occurrences, and the
\* hrefs of its links, one item URL each. An occurrence is the id the URL
\* carries and the URL's shape: "sub" for https://shop.booth.pm/items/<id>,
\* "main" for https://booth.pm/ja/items/<id>.
UrlShapes == {"sub", "main"}
Occurrences == [itemId : Ids, url : UrlShapes]

\* findBoothUrlsInText, the loop over one pattern's matches: a match is pushed
\* unless urls has its id
RECURSIVE pushMatches(_, _)
pushMatches(urls, matches) ==
  IF matches = <<>> THEN urls
  ELSE pushMatches(
         IF \E n \in 1..Len(urls) : urls[n].itemId = Head(matches).itemId
           THEN urls ELSE Append(urls, Head(matches)),
         Tail(matches))

\* findBoothUrlsInText keeping the last match of an id
RECURSIVE findBoothUrlsKeepingLast(_)
findBoothUrlsKeepingLast(text) ==
  IF text = <<>> THEN <<>>
  ELSE IF \E n \in 2..Len(text) : text[n].itemId = Head(text).itemId
    THEN findBoothUrlsKeepingLast(Tail(text))
  ELSE <<Head(text)>> \o findBoothUrlsKeepingLast(Tail(text))

\* findBoothUrlsInText: the first pattern matches URLs of both shapes, the
\* second pattern those on the main domain
findBoothUrlsInText(text) ==
  pushMatches(pushMatches(<<>>, text), SelectSeq(text, LAMBDA m : m.url = "main"))

\* extractBoothItemUrls, foundUrls.set for the urls of one source unless
\* foundUrls has the id
RECURSIVE setFoundUrls(_, _, _)
setFoundUrls(map, urls, source) ==
  IF urls = <<>> THEN map
  ELSE setFoundUrls(
         IF \E n \in 1..Len(map) : map[n].itemId = Head(urls).itemId
           THEN map
           ELSE Append(map, [itemId |-> Head(urls).itemId, url |-> Head(urls).url,
                               source |-> source]),
         Tail(urls), source)

\* extractBoothItemUrls, the loop over the links of the root
RECURSIVE scanLinks(_, _)
scanLinks(map, hrefs) ==
  IF hrefs = <<>> THEN map
  ELSE scanLinks(setFoundUrls(map, findBoothUrlsInText(<<Head(hrefs)>>),
                              "main-info-column-link"),
                 Tail(hrefs))

\* extractBoothItemUrls: Array.from(foundUrls.values()) for a root with this
\* text and these link hrefs
foundUrls(text, hrefs) ==
  scanLinks(setFoundUrls(<<>>, findBoothUrlsInText(text), "main-info-column"), hrefs)

\* parsePageForBoothItems
parsePageForBoothItems(text, hrefs, currentItemId) ==
  LET foundItems == foundUrls(text, hrefs)
  IN [totalFound |-> Len(foundItems),
      externalItems |-> SelectSeq(foundItems, LAMBDA item : item.itemId # currentItemId),
      currentPageItem |-> currentItemId]

\* the ids of a sequence of occurrences
ItemIds(items) == [n \in 1..Len(items) |-> items[n].itemId]

\* the page of item p is scanned: lastOp is the call and what it returned,
\* content the ids of the external items as handlePageAnalysis keeps them
ParsePage(p, text, hrefs) ==
  /\ page' = p
  /\ content' = externalItems(ItemIds(text \o hrefs), p)
  /\ lastOp' = [kind |-> "parsePageForBoothItems", text |-> text, hrefs |-> hrefs,
                ret |-> parsePageForBoothItems(text, hrefs, p)]
  /\ UNCHANGED <<store, rows, found, pending, faults, origin, relay, downloadHistory, calls, typing>>

NextParser ==
  \/ /\ store = EmptyStore
     /\ \E p \in Ids, text \in SeqsUpTo(Occurrences, MaxScan),
           hrefs \in SeqsUpTo(Occurrences, MaxScan) : ParsePage(p, text, hrefs)

SpecParser == Init /\ [][NextParser]_vars

\* ------------------------------------------- the BoothJsonClient on its own
\* the values a JSON field can have: absent, the empty string, a name
JsonNames == {"Foo", "Bar"}
JsonValues == {Undefined, ""} \cup JsonNames

\* jsonData.item: an object with a name field, or no object (absent or null)
JsonItems ==
  {i \in [isObject : BOOLEAN, name : JsonValues] : ~i.isObject => i.name = Undefined}

\* jsonData: an object with the fields name, item and title, or null
JsonDocs ==
  {d \in [isObject : BOOLEAN, name : JsonValues, item : JsonItems, title : JsonValues] :
     ~d.isObject => (d.name = Undefined /\ ~d.item.isObject /\ d.title = Undefined)}

\* the messages of the errors met in fetchItemData, and the indicator strings
\* each of them includes
ErrorMessages ==
  {"Failed to fetch", "NetworkError when attempting to fetch resource.",
   "Unexpected token < in JSON at position 0"}
Includes(message, indicator) ==
  \/ message = "Failed to fetch" /\ indicator = "Failed to fetch"
  \/ message = "HTTP 404: Not Found" /\ indicator = "404"

\* what the fetch of an item's JSON URL does: it throws, it answers with a
\* status that is not ok, its body is not JSON, or its body is jsonData
Responses ==
  [kind : {"threw", "invalid"}, message : ErrorMessages, jsonData : {Undefined}]
    \cup [kind : {"http"}, message : {"HTTP 404: Not Found"}, jsonData : {Undefined}]
    \cup [kind : {"json"}, message : {Undefined}, jsonData : JsonDocs]

\* a result object of fetchItemData; an absent name or error is undefined,
\* needsBackgroundFetch is whether the object has that flag (always true)
Result(success, name, error, needsBackgroundFetch) ==
  [success |-> success, name |-> name, error |-> error,
   needsBackgroundFetch |-> needsBackgroundFetch]

\* extractItemName trying title before name and item.name
extractItemNameTitleFirst(jsonData) ==
  IF ~jsonData.isObject THEN [threw |-> TRUE, name |-> Undefined]
  ELSE IF Truthy(jsonData.title) THEN [threw |-> FALSE, name |-> jsonData.title]
  ELSE IF Truthy(jsonData.name) THEN [threw |-> FALSE, name |-> jsonData.name]
  ELSE IF jsonData.item.isObject /\ Truthy(jsonData.item.name)
    THEN [threw |-> FALSE, name |-> jsonData.item.name]
  ELSE [threw |-> TRUE, name |-> Undefined]

\* extractItemName: the name it returns, or threw when it throws
extractItemName(jsonData) ==
  IF ~jsonData.isObject THEN [threw |-> TRUE, name |-> Undefined]
  ELSE IF Truthy(jsonData.name) THEN [threw |-> FALSE, name |-> jsonData.name]
  ELSE IF jsonData.item.isObject /\ Truthy(jsonData.item.name)
    THEN [threw |-> FALSE, name |-> jsonData.item.name]
  ELSE IF Truthy(jsonData.title) THEN [threw |-> FALSE, name |-> jsonData.title]
  ELSE [threw |-> TRUE, name |-> Undefined]

\* processJsonResponse
processJsonResponse(jsonData) ==
  LET itemName == extractItemName(jsonData)
  IN IF itemName.threw
       THEN Result(FALSE, Undefined, "Failed to extract item name from JSON response",
                   FALSE)
       ELSE Result(TRUE, itemName.name, Undefined, FALSE)

\* handleFetchError
handleFetchError(message) ==
  Result(FALSE, Undefined, message,
         \/ Includes(message, "CORS") \/ Includes(message, "Failed to fetch")
         \/ Includes(message, "Access to fetch")
         \/ Includes(message, "No 'Access-Control-Allow-Origin'")
         \/ Includes(message, "Cross-Origin Request Blocked")
         \/ Includes(message, "net::ERR_FAILED"))

\* fetchItemData, the fetch doing what response says
fetchItemData(response) ==
  CASE response.kind = "threw" -> Result(FALSE, Undefined, response.message, TRUE)
    [] response.kind = "http" -> Result(FALSE, Undefined, response.message, TRUE)
    [] response.kind = "invalid" -> handleFetchError(response.message)
    [] OTHER -> processJsonResponse(response.jsonData)

\* handleItemFetch: whether a failed result is handed to handleBackgroundFetch
needsBackground(result) ==
  \/ result.needsBackgroundFetch
  \/ Includes(result.error, "CORS")
  \/ Includes(result.error, "Failed to fetch")

\* handleItemFetch fetches the data of item itemId; lastOp is the call, the
\* result and, for a failed result, whether the background relay is tried
FetchItem(itemId, response) ==
  /\ lastOp' = [kind |-> "fetchItemData", itemId |-> itemId, response |-> response,
                ret |-> fetchItemData(response),
                background |-> /\ ~fetchItemData(response).success
                               /\ needsBackground(fetchItemData(response))]
  /\ UNCHANGED <<store, page, content, rows, found, pending, faults, origin, relay, downloadHistory, calls, typing>>

\* the background script's extractItemName without the item.name candidate
extractItemNameIgnoringItem(jsonData) ==
  IF ~jsonData.isObject THEN [threw |-> TRUE, name |-> Undefined]
  ELSE IF Truthy(jsonData.name) THEN [threw |-> FALSE, name |-> jsonData.name]
  ELSE IF Truthy(jsonData.title) THEN [threw |-> FALSE, name |-> jsonData.title]
  ELSE [threw |-> TRUE, name |-> Undefined]

\* extractItemName of the background script: the name it returns, or threw
\* when it throws; jsonData.item?.name is undefined when item is no object
backgroundExtractItemName(jsonData) ==
  IF ~jsonData.isObject THEN [threw |-> TRUE, name |-> Undefined]
  ELSE IF Truthy(jsonData.name) THEN [threw |-> FALSE, name |-> jsonData.name]
  ELSE IF Truthy(IF jsonData.item.isObject THEN jsonData.item.name ELSE Undefined)
    THEN [threw |-> FALSE, name |-> jsonData.item.name]
  ELSE IF Truthy(jsonData.title) THEN [threw |-> FALSE, name |-> jsonData.title]
  ELSE [threw |-> TRUE, name |-> Undefined]

\* the object handleCrossOriginFetch returns
RelayResult(success, name, error, itemId) ==
  [success |-> success, name |-> name, error |-> error, itemId |-> itemId]

\* handleCrossOriginFetch, the fetch doing what response says: every error,
\* a thrown one, a status that is not ok, a body that is not JSON or a
\* document without a name, ends in the catch block
handleCrossOriginFetch(response, itemId) ==
  IF response.kind # "json"
    THEN RelayResult(FALSE, Undefined, response.message, itemId)
  ELSE IF backgroundExtractItemName(response.jsonData).threw
    THEN RelayResult(FALSE, Undefined,
                     IF response.jsonData.isObject
                       THEN "Could not find name field in JSON response"
                       ELSE "No JSON data provided",
                     itemId)
  ELSE RelayResult(TRUE, backgroundExtractItemName(response.jsonData).name,
                   Undefined, itemId)

\* the background script serves a fetchItemData message for item itemId
RelayFetch(itemId, response) ==
  /\ lastOp' = [kind |-> "handleCrossOriginFetch", itemId |-> itemId,
                response |-> response, ret |-> handleCrossOriginFetch(response, itemId)]
  /\ UNCHANGED <<store, page, content, rows, found, pending, faults, origin, relay, downloadHistory, calls, typing>>

NextJson ==
  \/ /\ store = EmptyStore
     /\ \E itemId \in Ids, response \in Responses : FetchItem(itemId, response)
  \/ /\ store = EmptyStore
     /\ \E itemId \in Ids, response \in Responses : RelayFetch(itemId, response)

SpecJson == Init /\ [][NextJson]_vars

\* --------------------------------------------------- handleBackgroundFetch
\* the delay of the timer handleBackgroundFetch arms, in milliseconds
FetchTimeout == 10000

\* what the callback of chrome.runtime.sendMessage is called with: a response
\* of the background script, with or without success and error, no response
\* (undefined), or chrome.runtime.lastError set
Replies ==
  {[lastError |-> FALSE, response |-> TRUE, success |-> TRUE, name |-> "Foo",
    error |-> Undefined],
   [lastError |-> FALSE, response |-> TRUE, success |-> TRUE, name |-> "Bar",
    error |-> Undefined],
   [lastError |-> FALSE, response |-> TRUE, success |-> FALSE, name |-> Undefined,
    error |-> "HTTP 404"],
   [lastError |-> FALSE, response |-> TRUE, success |-> FALSE, name |-> Undefined,
    error |-> "Failed to fetch"],
   [lastError |-> FALSE, response |-> TRUE, success |-> FALSE, name |-> Undefined,
    error |-> Undefined],
   [lastError |-> FALSE, response |-> FALSE, success |-> FALSE, name |-> Undefined,
    error |-> Undefined],
   [lastError |-> TRUE, response |-> FALSE, success |-> FALSE, name |-> Undefined,
    error |-> "Could not establish connection"]}

\* the object the timer's callback resolves the promise with
TimeoutResult ==
  [success |-> FALSE, name |-> Undefined, error |-> "Background fetch timeout"]

\* the object the catch block resolves the promise with when sendMessage throws
ThrownResult ==
  [success |-> FALSE, name |-> Undefined, error |-> "Extension context invalidated"]

\* the object the sendMessage callback resolves the promise with
replyResult(reply) ==
  IF reply.lastError
    THEN [success |-> FALSE, name |-> Undefined, error |-> reply.error]
  ELSE IF reply.response /\ reply.success
    THEN [success |-> TRUE, name |-> reply.name, error |-> reply.error]
  ELSE [success |-> FALSE, name |-> Undefined,
        error |-> IF reply.response /\ Truthy(reply.error) THEN reply.error
                  ELSE "Unknown error"]

\* resolve replacing the value of a promise that is resolved already
resolveOverwriting(call, value) ==
  [call EXCEPT !.promise = "resolved", !.value = value]

\* resolve(value): settles a pending promise, does nothing to a settled one
resolve(call, value) ==
  IF call.promise = "pending"
    THEN [call EXCEPT !.promise = "resolved", !.value = value]
    ELSE call

\* clearTimeout(timeout): disarms the timer if it has not fired
clearTimeout(call) ==
  IF call.timer = "armed" THEN [call EXCEPT !.timer = "cleared"] ELSE call

\* handleBackgroundFetch(id, ...) is called: the timer is armed and the message
\* is sent, or sendMessage throws and the catch block resolves the promise
StartFetch(id, throws) ==
  /\ relay[id] = NoCall
  /\ relay' = [relay EXCEPT ![id] =
       IF throws
         THEN resolve(clearTimeout([promise |-> "pending", value |-> NoValue,
                                    timer |-> "armed", delay |-> FetchTimeout,
                                    message |-> "none"]),
                      ThrownResult)
         ELSE [promise |-> "pending", value |-> NoValue, timer |-> "armed",
               delay |-> FetchTimeout, message |-> "sent"]]
  /\ UNCHANGED <<store, page, content, rows, found, pending, faults, origin, lastOp,
               downloadHistory, calls, typing>>

\* the sendMessage callback of the call for id runs with reply
ReplyArrives(id, reply) ==
  /\ relay[id].message = "sent"
  /\ relay' = [relay EXCEPT ![id] =
       resolve(clearTimeout([relay[id] EXCEPT !.message = "replied"]),
               replyResult(reply))]
  /\ UNCHANGED <<store, page, content, rows, found, pending, faults, origin, lastOp,
               downloadHistory, calls, typing>>

\* the timer of the call for id fires
TimerFires(id) ==
  /\ relay[id].timer = "armed"
  /\ relay' = [relay EXCEPT ![id] =
       resolve([relay[id] EXCEPT !.timer = "fired"], TimeoutResult)]
  /\ UNCHANGED <<store, page, content, rows, found, pending, faults, origin, lastOp,
               downloadHistory, calls, typing>>

NextRelay ==
  \/ /\ store = EmptyStore
     /\ \E id \in Ids, throws \in BOOLEAN : StartFetch(id, throws)
  \/ /\ store = EmptyStore
     /\ \E id \in Ids, reply \in Replies : ReplyArrives(id, reply)
  \/ /\ store = EmptyStore
     /\ \E id \in Ids : TimerFires(id)

\* an armed timer fires: the event loop runs the callback of setTimeout once
\* the delay has passed, unless clearTimeout came first
SpecRelay ==
  Init /\ [][NextRelay]_vars /\ \A id \in Ids : WF_vars(TimerFires(id))

\* ------------------------------------------------------ the download history
\* chrome.storage.local['downloadHistory'] is a list of entries
\* {title, boothID, filename, timestamp, url, free, registered}. The title is
\* carried along unchanged and read by no operation below, so it is left out.

\* longest history the operations below build
MaxHistory == 2

\* data rows of an imported CSV file
MaxRows == 2

\* formatDate(new Date()): the clock has a resolution of one second
Timestamps == {"12:00:01", "12:00:02"}

\* file names of a download; an entry imported from a legacy file has ""
FileNames == {"x.zip", ""}

\* the page a download was started from
ItemUrl(boothID) == <<"/items/", boothID>>

\* the content scripts that log a download: only the shop page logs free ones
Scripts == {"Shop", "Library", "Gift", "Order"}

SamePair(entry, other) ==
  entry.boothID = other.boothID /\ entry.filename = other.filename

\* saveDownloadHistory(info) without the filter on (boothID, filename)
saveDownloadHistoryKeepingOld(history, info, free, timestamp) ==
  Append(history,
         [url |-> info.itemUrl, timestamp |-> timestamp, boothID |-> info.boothID,
          filename |-> info.fileName, free |-> free, registered |-> FALSE])

\* saveDownloadHistory(info): the list that is written back
saveDownloadHistory(history, info, free, timestamp) ==
  LET newEntry == [url |-> info.itemUrl, timestamp |-> timestamp,
                   boothID |-> info.boothID, filename |-> info.fileName,
                   free |-> free, registered |-> FALSE]
  IN Append(SelectSeq(history, LAMBDA entry : ~SamePair(entry, newEntry)), newEntry)

\* a download is logged by one of the content scripts
SaveDownloadHistory(script, boothID, fileName, timestamp) ==
  LET info == [boothID |-> boothID, fileName |-> fileName, itemUrl |-> ItemUrl(boothID)]
      history == saveDownloadHistory(downloadHistory, info, script = "Shop", timestamp)
  IN /\ Len(history) <= MaxHistory
     /\ downloadHistory' = history
     /\ lastOp' = [kind |-> "saveDownloadHistory",
                   boothID |-> boothID, filename |-> fileName,
                   filteredCount |-> Len(downloadHistory) + 1 - Len(history)]
     /\ UNCHANGED <<store, page, content, rows, found, pending, faults, origin, relay,
               calls, typing>>

\* index of the first entry of the pair, 0 for none (findIndex returning -1)
findIndex(history, boothID, filename) ==
  LET hits == {k \in DOMAIN history :
                 history[k].boothID = boothID /\ history[k].filename = filename}
  IN IF hits = {} THEN 0 ELSE CHOOSE k \in hits : \A other \in hits : k <= other

\* the asset button of the popup: the first entry of the pair is marked
markRegistered(history, boothID, filename) ==
  LET index == findIndex(history, boothID, filename)
  IN IF index = 0 THEN history
     ELSE [history EXCEPT ![index] =
             [field \in DOMAIN history[index] \cup {"registered"} |->
                IF field = "registered" THEN TRUE ELSE history[index][field]]]

RegisterAsset(boothID, filename) ==
  /\ findIndex(downloadHistory, boothID, filename) # 0
  /\ downloadHistory' = markRegistered(downloadHistory, boothID, filename)
  /\ lastOp' = [kind |-> "registerAsset", boothID |-> boothID, filename |-> filename]
  /\ UNCHANGED <<store, page, content, rows, found, pending, faults, origin, relay,
               calls, typing>>

\* a data row of a CSV file under the header
\* URL,timestamp,boothID,title,fileName,free,registered; the rows drawn here
\* are those of a free download with an empty registered column
CsvRows ==
  {[url |-> ItemUrl(boothID), timestamp |-> timestamp, boothID |-> boothID,
    fileName |-> fileName, free |-> "true", registered |-> registered] :
     boothID \in Ids, timestamp \in Timestamps, fileName \in FileNames,
     registered \in {""}}

CsvFiles == SeqsUpTo(CsvRows, MaxRows)

\* what the history keeps of an import: the last data row of the file, and
\* whether an earlier row has its boothID and fileName with another timestamp
Imported(kind, mergeMode, csv) ==
  LET lastRow == csv[Len(csv)]
  IN [kind |-> kind, mergeMode |-> mergeMode,
      boothID |-> lastRow.boothID, filename |-> lastRow.fileName,
      timestamp |-> lastRow.timestamp,
      repeated |-> \E k \in 1..(Len(csv) - 1) :
                     /\ csv[k].boothID = lastRow.boothID
                     /\ csv[k].fileName = lastRow.fileName
                     /\ csv[k].timestamp # lastRow.timestamp]

\* importCSV of the popup, one row: an empty registered column leaves the
\* field undefined, which storage does not keep
importedEntry(row) ==
  IF row.registered = ""
    THEN [url |-> row.url, timestamp |-> row.timestamp, boothID |-> row.boothID,
          filename |-> row.fileName, free |-> row.free = "true"]
    ELSE [url |-> row.url, timestamp |-> row.timestamp, boothID |-> row.boothID,
          filename |-> row.fileName, free |-> row.free = "true",
          registered |-> row.registered = "true"]

\* importCSV of the popup, the filter that one imported entry applies to the
\* history: TRUE for the entries that stay
survives(existing, newEntry) ==
  IF existing.boothID # newEntry.boothID THEN TRUE
  ELSE IF newEntry.filename = "" /\ existing.filename = "" THEN FALSE
  ELSE IF newEntry.filename = "" /\ existing.filename # "" THEN TRUE
  ELSE IF newEntry.filename # "" /\ existing.filename = "" THEN FALSE
  ELSE newEntry.filename # existing.filename

\* importCSV of the popup, the body of the loop over importedEntries
mergeEntry(history, newEntry) ==
  LET kept == SelectSeq(history, LAMBDA existing : survives(existing, newEntry))
      existsNonEmpty ==
        \E k \in DOMAIN kept :
          kept[k].boothID = newEntry.boothID /\ kept[k].filename # ""
  IN IF newEntry.filename = "" /\ existsNonEmpty THEN kept
     ELSE Append(kept, newEntry)

RECURSIVE mergeEntries(_, _)
mergeEntries(history, importedEntries) ==
  IF importedEntries = <<>> THEN history
  ELSE mergeEntries(mergeEntry(history, Head(importedEntries)), Tail(importedEntries))

\* importCSV(csvText) of the popup: the list that is written back
importCSV(history, csv) ==
  mergeEntries(history, [k \in DOMAIN csv |-> importedEntry(csv[k])])

ImportCSV(csv) ==
  LET history == importCSV(downloadHistory, csv)
  IN /\ csv # <<>>
     /\ Len(history) <= MaxHistory
     /\ downloadHistory' = history
     /\ lastOp' = Imported("importCSV", "merge", csv)
     /\ UNCHANGED <<store, page, content, rows, found, pending, faults, origin, relay,
               calls, typing>>

\* parseCSV(csvText) of the import page, one row of six or more columns
parsedItem(row) ==
  [url |-> row.url, timestamp |-> row.timestamp, boothID |-> row.boothID,
   filename |-> row.fileName, free |-> row.free = "true",
   registered |-> IF row.registered # "" THEN row.registered = "true" ELSE FALSE]

parseCSV(csv) == [k \in DOMAIN csv |-> parsedItem(csv[k])]

\* performImport() of the import page: the list that is written back
performImport(history, items, mergeMode) ==
  IF mergeMode = "replace" THEN items
  ELSE LET existingUrls == {history[k].url : k \in DOMAIN history}
       IN history \o SelectSeq(items, LAMBDA item : item.url \notin existingUrls)

MergeModes == {"skip", "replace"}

PerformImport(csv, mergeMode) ==
  LET history == performImport(downloadHistory, parseCSV(csv), mergeMode)
  IN /\ csv # <<>>
     /\ Len(history) <= MaxHistory
     /\ downloadHistory' = history
     /\ lastOp' = Imported("performImport", mergeMode, csv)
     /\ UNCHANGED <<store, page, content, rows, found, pending, faults, origin, relay,
               calls, typing>>

NextHistory ==
  \/ /\ store = EmptyStore
     /\ \E script \in Scripts, boothID \in Ids, fileName \in FileNames,
           timestamp \in Timestamps :
          SaveDownloadHistory(script, boothID, fileName, timestamp)
  \/ /\ store = EmptyStore
     /\ \E boothID \in Ids, filename \in FileNames : RegisterAsset(boothID, filename)
  \/ /\ store = EmptyStore
     /\ \E csv \in CsvFiles : ImportCSV(csv)
  \/ /\ store = EmptyStore
     /\ \E csv \in CsvFiles, mergeMode \in MergeModes : PerformImport(csv, mergeMode)

SpecHistory == Init /\ [][NextHistory]_vars

\* ------------------------------------- StorageManager calls that interleave
\* Every StorageManager method awaits its storage reads and its storage write,
\* so the steps of two calls in progress can alternate. A call is followed
\* from await to await: pc is the storage request the call waits for.

\* calls a writer makes one after the other
MaxCalls == 2

\* the name a name edit writes
EditedName == "b"

\* updateItem(itemId, {name}) of the debounced name edit
NameUpdate == Data(EditedName, Undefined, Undefined, Undefined)

\* the updateData of the category transitions of an item shown on page 1:
\* exclude (of an unsaved row), restore (to unsaved), permanently exclude and
\* the promotion to saved after an export
Transitions ==
  {Data(Undefined, "excluded", "1", "unsaved"),
   Data(Undefined, "unsaved", "1", Undefined),
   Data(Undefined, "permanentlyExcluded", Undefined, "unsaved"),
   Data(Undefined, "saved", Undefined, Undefined)}

\* the calls a writer can make: a tab saves, updates or deletes an item, the
\* background script cleans up
Requests ==
  {[method |-> "saveItem", itemId |-> id, data |-> Data("a", "unsaved", "1", Undefined)] :
     id \in Ids}
  \cup {[method |-> "updateItem", itemId |-> "1", data |-> u] :
          u \in Transitions \cup {NameUpdate}}
  \cup {[method |-> "deleteItem", itemId |-> "1", data |-> NotCalled.data],
        [method |-> "cleanupAllEditingItems", itemId |-> Undefined,
         data |-> NotCalled.data]}

\* the collection a call writes back computed from the store as it is when
\* the write is served
writtenFromStore(call, current) ==
  IF call.method = "saveItem"
    THEN saveItem(current, call.itemId, call.data, {}, 0).store
  ELSE IF call.method = "updateItem"
    THEN updateItem(current, call.itemId, call.data, {}, 0).store
  ELSE IF call.method = "deleteItem"
    THEN deleteItem(current, call.itemId, {}, 0).store
  ELSE cleanupAllEditingItems(current, {})

\* the collection a call hands to chrome.storage.local.set: built from what
\* its own reads returned
written(call, current) ==
  IF call.method = "saveItem"
    THEN saveItem(call.allItems, call.itemId, call.data, {}, 0).store
  ELSE IF call.method = "updateItem"
    THEN Put(call.allItems, call.itemId,
             IF call.existingItem = Null THEN NewItem(call.itemId, call.data)
             ELSE UpdatedItem(call.itemId, call.existingItem, call.data))
  ELSE IF call.method = "deleteItem"
    THEN deleteItem(call.allItems, call.itemId, {}, 0).store
  ELSE cleanupAllEditingItems(call.allItems, {})

\* writer w makes a call and its first read is served: getItem for updateItem,
\* the whole collection for the others; the cleanup ends here when it finds
\* nothing to remove
BeginCall(w, request) ==
  /\ calls[w].pc \in {"idle", "done"}
  /\ calls[w].made < MaxCalls
  /\ calls' = [calls EXCEPT ![w] =
       [method |-> request.method, itemId |-> request.itemId, data |-> request.data,
        pc |-> IF request.method = "updateItem" THEN "getAllItems"
               ELSE IF request.method = "cleanupAllEditingItems"
                       /\ cleanupAllEditingItems(store, {}) = store
                 THEN "done"
               ELSE "set",
        existingItem |-> IF request.method = "updateItem"
                           THEN getItem(store, request.itemId, FALSE) ELSE Null,
        allItems |-> IF request.method = "updateItem" THEN EmptyStore
                     ELSE getAllItems(store, FALSE),
        ret |-> request.method = "cleanupAllEditingItems"
                /\ cleanupAllEditingItems(store, {}) = store,
        made |-> calls[w].made + 1]]
  /\ UNCHANGED <<store, page, content, rows, found, pending, faults, origin, lastOp,
                 relay, downloadHistory, typing>>

\* the getAllItems of writer w's updateItem is served
ReadAll(w) ==
  /\ calls[w].pc = "getAllItems"
  /\ calls' = [calls EXCEPT ![w].allItems = getAllItems(store, FALSE), ![w].pc = "set"]
  /\ UNCHANGED <<store, page, content, rows, found, pending, faults, origin, lastOp,
                 relay, downloadHistory, typing>>

\* the set of writer w's call is served and the call returns true
WriteBack(w) ==
  /\ calls[w].pc = "set"
  /\ store' = written(calls[w], store)
  /\ calls' = [calls EXCEPT ![w].pc = "done", ![w].ret = TRUE,
                            ![w].existingItem = Null, ![w].allItems = EmptyStore]
  /\ UNCHANGED <<page, content, rows, found, pending, faults, origin, lastOp,
                 relay, downloadHistory, typing>>

NextCalls ==
  \/ /\ downloadHistory = <<>>
     /\ \E w \in Writers, request \in Requests : BeginCall(w, request)
  \/ /\ downloadHistory = <<>>
     /\ \E w \in Writers : ReadAll(w)
  \/ /\ downloadHistory = <<>>
     /\ \E w \in Writers : WriteBack(w)

SpecCalls == Init /\ [][NextCalls]_vars

\* ------------------------------------------------ the debounce of name edits
\* DELAYS.DEBOUNCE_INPUT, in milliseconds
DebounceInput == 500

\* the clock advances in steps of half the delay, MaxTicks times
MaxTicks == 5
Tick == DebounceInput \div 2

\* input events in one run
MaxEdits == 3

\* the value of the name input at the n-th input event
TypedNames == <<"b", "bo", "boo", "boot">>

\* the entities whose names are edited: an item and a tag with the same id
Entities == {[entityType |-> "item", entityId |-> "1"],
             [entityType |-> "tag", entityId |-> "1"]}

\* timeoutKey of an entity
timeoutKey(entity) == <<entity.entityType, "-", entity.entityId>>

\* clearTimeout(id): the timer is disarmed if it has not fired
clearNameTimeout(timers, id) == {timer \in timers : timer.id # id}

\* the timers left armed by an input event that does clear the earlier timer
\* of its key
timersAfterClear(timers, map, key) ==
  IF key \in DOMAIN map THEN clearNameTimeout(timers, map[key]) ELSE timers

\* handleEntityNameEdit(entityType, entityId, newName): the n-th input event.
\* The timer of the key recorded in nameEditTimeouts is cleared; a new timer
\* is armed and recorded.
TypeName(entity) ==
  LET n == Len(typing.edits) + 1
      key == timeoutKey(entity)
  IN /\ n <= MaxEdits
     /\ typing.now + DebounceInput <= MaxTicks * Tick
     /\ typing' = [typing EXCEPT
          !.edits = Append(@, [entity |-> entity, newName |-> TypedNames[n],
                               at |-> typing.now]),
          !.timers = timersAfterClear(@, typing.nameEditTimeouts, key)
                       \cup {[id |-> n, due |-> typing.now + DebounceInput]},
          !.nameEditTimeouts = Put(@, key, n)]
     /\ UNCHANGED <<store, page, content, rows, found, pending, faults, origin, lastOp,
                    relay, downloadHistory, calls>>

\* the timer armed by the id-th input event fires once its delay has passed:
\* its callback runs up to the await of the storage update
TimerCallback(id) ==
  /\ \E timer \in typing.timers : timer.id = id /\ timer.due <= typing.now
  /\ typing' = [typing EXCEPT !.timers = clearNameTimeout(@, id),
                              !.running = @ \cup {id}]
  /\ UNCHANGED <<store, page, content, rows, found, pending, faults, origin, lastOp,
                 relay, downloadHistory, calls>>

\* the storage update of the callback of the id-th input event returns: the
\* name is stored (an item's in the item collection; the tags are kept under
\* a storage key of their own) and the key is deleted from nameEditTimeouts
NameWritten(id) ==
  LET edit == typing.edits[id]
  IN /\ id \in typing.running
     /\ store' = IF edit.entity.entityType = "item"
                   THEN updateItem(store, edit.entity.entityId,
                                   Data(edit.newName, Undefined, Undefined, Undefined),
                                   {}, 0).store
                 ELSE store
     /\ typing' = [typing EXCEPT
          !.running = @ \ {id},
          !.writes = Append(@, [id |-> id, at |-> typing.now]),
          !.nameEditTimeouts = Remove(@, timeoutKey(edit.entity))]
     /\ UNCHANGED <<page, content, rows, found, pending, faults, origin, lastOp,
                    relay, downloadHistory, calls>>

\* time passes; a timer that is due fires before the clock moves on
Elapse ==
  /\ typing.now < MaxTicks * Tick
  /\ \A timer \in typing.timers : timer.due > typing.now
  /\ typing' = [typing EXCEPT !.now = @ + Tick]
  /\ UNCHANGED <<store, page, content, rows, found, pending, faults, origin, lastOp,
                 relay, downloadHistory, calls>>

NextTyping ==
  \/ /\ downloadHistory = <<>>
     /\ \E entity \in Entities : TypeName(entity)
  \/ /\ downloadHistory = <<>>
     /\ \E id \in 1..MaxEdits : TimerCallback(id)
  \/ /\ downloadHistory = <<>>
     /\ \E id \in 1..MaxEdits : NameWritten(id)
  \/ /\ downloadHistory = <<>>
     /\ Elapse

SpecTyping == Init /\ [][NextTyping]_vars

\* ---------------------------------------------------------------- claims
\* the ids on the open page: its own item and the ids scanned on it
OnPage(i) == i = page \/ i \in Range(content)

\* the stored items that are eligible for an export from the open page
Eligible == {i \in DOMAIN store : store[i].category \in {"saved", "unsaved"} /\ OnPage(i)}

\* this step is a successful handleEntityRestore that takes item i out of the
\* excluded or permanentlyExcluded category
Restored(i) ==
  /\ lastOp'.kind = "restore" /\ lastOp'.ok
  /\ i \in DOMAIN store /\ store[i].category \in {"excluded", "permanentlyExcluded"}
  /\ i \in DOMAIN store' /\ store'[i].category \notin {"excluded", "permanentlyExcluded"}

\* C1: in every reachable state every stored item has a currentPageId exactly
\* when its category is unsaved or excluded.
C1_CurrentPageIdIffEditing ==
  \A i \in DOMAIN store :
    (store[i].currentPageId # Undefined) <=> (store[i].category \in {"unsaved", "excluded"})

\* C2: in every reachable state every stored item has a previousCategory
\* exactly when its category is excluded or permanentlyExcluded.
C2_PreviousCategoryIffExcluded ==
  \A i \in DOMAIN store :
    (store[i].previousCategory # Undefined)
      <=> (store[i].category \in {"excluded", "permanentlyExcluded"})

\* C3: an item that was saved or unsaved when it was excluded is put back in
\* that category by a later restore, whether it is restored from excluded or
\* from permanentlyExcluded.
C3_RestoreReturnsToCategory ==
  [][\A i \in Ids :
       (Restored(i) /\ origin[i].category \in {"saved", "unsaved"})
         => store'[i].category = origin[i].category]_vars

\* C4: an unsaved item with currentPageId P that is excluded and then restored
\* is unsaved with currentPageId P again, on whichever page that is done.
C4_ExcludeRestoreKeepsPage ==
  [][\A i \in Ids :
       (/\ Restored(i)
        /\ store[i].category = "excluded"
        /\ origin[i].category = "unsaved"
        /\ origin[i].currentPageId # Undefined)
         => /\ store'[i].category = "unsaved"
            /\ store'[i].currentPageId = origin[i].currentPageId]_vars

\* C5: for every store content and pageId, getItemsForCurrentPage(pageId)
\* returns exactly the saved items, the permanentlyExcluded items and the
\* unsaved/excluded items whose currentPageId is pageId.
C5_ItemsForCurrentPage ==
  \A pageId \in Ids :
    getItemsForCurrentPage(store, pageId, FALSE) =
      {i \in DOMAIN store :
         \/ store[i].category \in {"saved", "permanentlyExcluded"}
         \/ /\ store[i].category \in {"unsaved", "excluded"}
            /\ store[i].currentPageId = pageId}

\* C6: after the management window is (re)drawn, every saved and every
\* permanentlyExcluded stored item has a row, and an unsaved or excluded item
\* has a row only if its currentPageId is the open page.
C6_DrawnRows ==
  lastOp.drawn =>
    /\ \A i \in DOMAIN store :
         store[i].category \in {"saved", "permanentlyExcluded"}
           => \E r \in rows : r.id = i
    /\ \A r \in rows :
         (r.id \in DOMAIN store /\ store[r.id].category \in {"unsaved", "excluded"})
           => store[r.id].currentPageId = page

\* C7: the items exportSavedAndNewItems copies are exactly the stored saved
\* and unsaved items whose id is the page's own id or an id scanned on the page.
C7_CopiedSet ==
  [][(lastOp'.kind = "export" /\ lastOp'.clipboard = "ok")
       => lastOp'.copied = Eligible]_vars

\* an export copied the unsaved items of the page and left out a stored item
C7_Witness ==
  /\ lastOp.kind = "export" /\ lastOp.clipboard = "ok"
  /\ lastOp.newIds # {}
  /\ \E i \in DOMAIN store : i \notin lastOp.copied

\* C8: when no stored saved or unsaved item is on the page,
\* exportSavedAndNewItems returns success:false and leaves the stored
\* collection as it was.
C8_EmptyExport ==
  [][(lastOp'.kind = "export" /\ Eligible = {})
       => (~lastOp'.ok /\ store' = store)]_vars

\* an export found nothing eligible while an excluded item of the page and an
\* editing item of another page were stored
C8_Witness ==
  /\ lastOp.kind = "export" /\ ~lastOp.ok /\ lastOp.clipboard = "none"
  /\ Eligible = {}
  /\ \E i \in DOMAIN store :
       store[i].category = "excluded" /\ OnPage(i) /\ store[i].currentPageId = page
  /\ \E i \in DOMAIN store :
       /\ store[i].category \in {"unsaved", "excluded"}
       /\ store[i].currentPageId \notin {Undefined, page}

\* C9: an export changes the stored collection only if its clipboard write
\* succeeded; when the clipboard write fails the collection is unchanged.
C9_ClipboardFirst ==
  [][lastOp'.kind = "export"
       => /\ lastOp'.clipboard = "failed" => store' = store
          /\ store' # store => lastOp'.clipboard = "ok"]_vars

\* the clipboard write of an export failed while an unsaved item and an
\* excluded item of the page were stored
C9_Witness ==
  /\ lastOp.kind = "export" /\ lastOp.clipboard = "failed"
  /\ \E i \in Eligible : store[i].category = "unsaved"
  /\ \E i \in DOMAIN store : store[i].category = "excluded" /\ OnPage(i)

\* C10: after a successful export whose persistence result reports success,
\* every item exported while unsaved is stored as saved without a currentPageId.
C10_ExportedAreSaved ==
  (lastOp.kind = "export" /\ lastOp.ok /\ lastOp.persisted)
    => \A i \in lastOp.newIds :
         /\ i \in DOMAIN store
         /\ store[i].category = "saved"
         /\ store[i].currentPageId = Undefined

\* C11: after a successful export on the open page whose persistence result
\* reports success, no stored item is excluded with the open page as its
\* currentPageId, whether or not its id was scanned on the page.
C11_NoExcludedOfPage ==
  (lastOp.kind = "export" /\ lastOp.ok /\ lastOp.persisted)
    => ~\E i \in DOMAIN store :
          store[i].category = "excluded" /\ store[i].currentPageId = page

\* C12: after a successful export on the open page whose persistence result
\* reports success, no stored unsaved or excluded item has the currentPageId
\* of another page.
C12_NoOtherPageEditing ==
  (lastOp.kind = "export" /\ lastOp.ok /\ lastOp.persisted)
    => ~\E i \in DOMAIN store :
          /\ store[i].category \in {"unsaved", "excluded"}
          /\ store[i].currentPageId \notin {Undefined, page}

\* the stored excluded items whose id is on the open page
ExcludedOnPage == {i \in DOMAIN store : store[i].category = "excluded" /\ OnPage(i)}

C14_ExportMetadata ==
  [][(lastOp'.kind = "export" /\ lastOp'.ok)
       => \A i \in lastOp'.newIds :
            (i \in DOMAIN store' /\ store'[i].category = "saved")
              => /\ {"lastExported", "exportCount"} \subseteq DOMAIN store'[i]
                 /\ store'[i].lastExported = Timestamp
                 /\ store'[i].exportCount = exportCountOf(store[i]) + 1]_vars

\* C15: when the startup cleanup ends without a storage error, no unsaved and
\* no excluded item is stored, and every item that was saved or
\* permanentlyExcluded before it is stored unchanged.
C15_StartupCleanup ==
  [][(lastOp'.kind = "startup" /\ lastOp'.ok)
       => /\ \A i \in DOMAIN store' : store'[i].category \notin {"unsaved", "excluded"}
          /\ \A i \in DOMAIN store :
               store[i].category \in {"saved", "permanentlyExcluded"}
                 => (i \in DOMAIN store' /\ store'[i] = store[i])]_vars

\* a startup cleanup removed an editing item and kept a permanentlyExcluded one
C15_Witness ==
  /\ lastOp.kind = "startup" /\ lastOp.ok /\ lastOp.removed > 0
  /\ \E i \in DOMAIN store : store[i].category = "permanentlyExcluded"

\* C16: updateItem on an id that is not stored creates a record for the id,
\* with the update's category or unsaved when it gives none, and returns
\* true; and the same update applied again leaves the collection as the first
\* application left it.
C16_UpsertIdempotent ==
  [][(/\ lastOp'.kind = "updateItem" /\ lastOp'.F = {}
      /\ lastOp'.itemId \notin DOMAIN store)
       => /\ lastOp'.ret = TRUE
          /\ lastOp'.itemId \in DOMAIN store'
          /\ store'[lastOp'.itemId].category =
               (IF lastOp'.data.category = Undefined THEN "unsaved"
                ELSE lastOp'.data.category)
          /\ updateItem(store', lastOp'.itemId, lastOp'.data, {}, 0).store = store']_vars

\* the value a StorageManager method returns when storage failed
SafeDefault(kind) ==
  CASE kind = "getItem" -> Null
    [] kind = "getAllItems" -> EmptyStore
    [] kind = "getItemsForCurrentPage" -> {}
    [] OTHER -> FALSE

\* C17: a StorageManager method one of whose storage calls failed returns its
\* safe default: null for getItem, {} for getAllItems and
\* getItemsForCurrentPage, false for saveItem, updateItem and deleteItem.
C17_SafeDefaults ==
  [][lastOp'.F # {} => lastOp'.ret = SafeDefault(lastOp'.kind)]_vars

\* the position of the first occurrence of id in a sequence of occurrences
FirstOf(id, all) == CHOOSE n \in 1..Len(all) :
                      /\ all[n].itemId = id
                      /\ \A m \in 1..(n - 1) : all[m].itemId # id

\* C18: for the occurrences of the scanned root, those of its text followed
\* by those of its link hrefs, externalItems holds each referenced id other
\* than the page's own exactly once and never the page's own id, in the order
\* of the first occurrences, each with the URL and the source of the first
\* occurrence of its id.
C18_ScanDeduplicates ==
  lastOp.kind = "parsePageForBoothItems" =>
    LET all == lastOp.text \o lastOp.hrefs
        ext == lastOp.ret.externalItems
    IN /\ \A m, n \in 1..Len(ext) : m # n => ext[m].itemId # ext[n].itemId
       /\ {ext[n].itemId : n \in 1..Len(ext)} = {all[n].itemId : n \in 1..Len(all)} \ {page}
       /\ \A n \in 1..Len(ext) :
            /\ ext[n].url = all[FirstOf(ext[n].itemId, all)].url
            /\ ext[n].source = IF FirstOf(ext[n].itemId, all) <= Len(lastOp.text)
                                 THEN "main-info-column" ELSE "main-info-column-link"
       /\ \A m, n \in 1..Len(ext) :
            m < n => FirstOf(ext[m].itemId, all) < FirstOf(ext[n].itemId, all)
       /\ ItemIds(ext) = content

\* occurrences [A, B, A] with A's two occurrences of different URL shapes,
\* scanned on the page of B: one external item is returned
C18_Witness ==
  /\ lastOp.kind = "parsePageForBoothItems"
  /\ LET all == lastOp.text \o lastOp.hrefs
     IN /\ Len(all) = 3
        /\ all[1].itemId = all[3].itemId /\ all[1].url # all[3].url
        /\ all[2].itemId # all[1].itemId
        /\ all[2].itemId = page
        /\ Len(lastOp.ret.externalItems) = 1

\* the candidate fields of a JSON document in priority order: name,
\* item.name, title
Candidates(jsonData) ==
  <<jsonData.name,
    IF jsonData.item.isObject THEN jsonData.item.name ELSE Undefined,
    jsonData.title>>

\* the result of a fetch that got JSON: success with the first candidate
\* among wanted, or, when wanted is empty, a failure without
\* needsBackgroundFetch that is not handed to the background relay
ExtractionPicks(wanted) ==
  IF wanted = {}
    THEN /\ ~lastOp.ret.success
         /\ lastOp.ret.error = "Failed to extract item name from JSON response"
         /\ ~lastOp.ret.needsBackgroundFetch
         /\ ~lastOp.background
    ELSE /\ lastOp.ret.success
         /\ \E n \in wanted :
              /\ \A m \in wanted : n <= m
              /\ lastOp.ret.name = Candidates(lastOp.response.jsonData)[n]

\* C19: name extraction returns the first of the fields name, item.name and
\* title, in that order, that has a non-empty value; when none has, the
\* result is an extraction failure that carries no needsBackgroundFetch flag
\* and is not routed to the background relay.
C19_NameExtraction ==
  (lastOp.kind = "fetchItemData" /\ lastOp.response.kind = "json")
    => ExtractionPicks({n \in 1..3 : Truthy(Candidates(lastOp.response.jsonData)[n])})

\* C19 as stated: name extraction returns the first of the fields name,
\* item.name and title that is present in the document; when none is
\* present the result is an extraction failure without needsBackgroundFetch
\* that is not routed to the background relay.
C19_FirstPresentField ==
  (lastOp.kind = "fetchItemData" /\ lastOp.response.kind = "json")
    => ExtractionPicks({n \in 1..3 : Candidates(lastOp.response.jsonData)[n] # Undefined})

\* a document without name, with a name in item and another in title, gave
\* the name in item
C19_Witness ==
  /\ lastOp.kind = "fetchItemData" /\ lastOp.response.kind = "json"
  /\ lastOp.response.jsonData.name = Undefined
  /\ lastOp.response.jsonData.item.name \in JsonNames
  /\ lastOp.response.jsonData.title \in JsonNames \ {lastOp.response.jsonData.item.name}
  /\ lastOp.ret.success /\ lastOp.ret.name = lastOp.response.jsonData.item.name

\* C20: every call of handleBackgroundFetch is eventually resolved and never
\* rejected; its promise is resolved by the reply when the reply comes while
\* the timer is armed, and with {success:false, error:'Background fetch
\* timeout'} when the timer fires before any reply; and a resolved promise
\* keeps its value, also when the reply arrives after the timeout.
C20_AlwaysResolves ==
  /\ \A id \in Ids : relay[id].promise = "pending" ~> relay[id].promise = "resolved"
  /\ [](\A id \in Ids : relay[id].promise \in {"none", "pending", "resolved"})
  /\ [][\A id \in Ids :
          /\ relay[id].promise = "resolved"
               => (relay'[id].promise = "resolved" /\ relay'[id].value = relay[id].value)
          /\ (relay[id].promise = "none" /\ relay'[id].promise = "resolved")
               => relay'[id].value = ThrownResult
          /\ (relay[id].promise = "pending" /\ relay'[id].promise = "resolved")
               => \/ /\ relay[id].timer = "armed" /\ relay'[id].timer = "fired"
                     /\ relay[id].message = "sent" /\ relay'[id].message = "sent"
                     /\ relay'[id].value = TimeoutResult
                  \/ /\ relay[id].timer = "armed" /\ relay'[id].timer = "cleared"
                     /\ relay[id].message = "sent" /\ relay'[id].message = "replied"
                     /\ \E reply \in Replies : relay'[id].value = replyResult(reply)]_vars

\* a call was resolved by its timeout and the reply arrived afterwards
C20_Witness ==
  \E id \in Ids :
    /\ relay[id].promise = "resolved" /\ relay[id].value = TimeoutResult
    /\ relay[id].timer = "fired" /\ relay[id].message = "replied"


\* C21: for every JSON document the background script's extractItemName and
\* BoothJsonClient.extractItemName give the same outcome, the same name or a
\* failure in both, and so the relay's reply succeeds with the name the
\* content script's processJsonResponse would give, or fails when it fails.
C21_SameExtraction ==
  (lastOp.kind = "handleCrossOriginFetch" /\ lastOp.response.kind = "json")
    => /\ backgroundExtractItemName(lastOp.response.jsonData)
            = extractItemName(lastOp.response.jsonData)
       /\ lastOp.ret.success = processJsonResponse(lastOp.response.jsonData).success
       /\ lastOp.ret.name = processJsonResponse(lastOp.response.jsonData).name

\* the relay answered with the name in item of a document that has no name
\* field and another name in title
C21_Witness ==
  /\ lastOp.kind = "handleCrossOriginFetch" /\ lastOp.response.kind = "json"
  /\ lastOp.response.jsonData.name = Undefined
  /\ lastOp.response.jsonData.item.name \in JsonNames
  /\ lastOp.response.jsonData.title \in JsonNames \ {lastOp.response.jsonData.item.name}
  /\ lastOp.ret.success /\ lastOp.ret.name = lastOp.response.jsonData.item.name


\* the history holds at most one entry per (boothID, filename)
NoDuplicates(history) ==
  \A k, m \in DOMAIN history : SamePair(history[k], history[m]) => k = m

EntriesOfLastRow ==
  SelectSeq(downloadHistory,
            LAMBDA entry : entry.boothID = lastOp.boothID
                           /\ entry.filename = lastOp.filename)

\* C23: after the import of a CSV file in which two rows have the same boothID
\* and filename and different timestamps, the history holds exactly one entry
\* of that pair, and it is the one of the row processed last.
C23_LastRowWins ==
  (lastOp.kind \in {"importCSV", "performImport"} /\ lastOp.repeated)
    => /\ Len(EntriesOfLastRow) = 1
       /\ EntriesOfLastRow[1].timestamp = lastOp.timestamp

\* C24: a manual-add submission whose id is empty, whose name is empty, whose
\* id is not a number or whose id is stored (in any category) is rejected with
\* a message and leaves the store as it was; a submission that changes the
\* store had a valid id that was not stored, and the item of that id is then
\* unsaved with the current page as its currentPageId.
C24_ManualAddValidation ==
  [][lastOp'.kind = "manualAdd"
       => LET itemId == lastOp'.itemId
              invalid == \/ itemId = ""
                         \/ lastOp'.itemName = ""
                         \/ itemId \notin Range(AllIds)
                         \/ itemId \in DOMAIN store
          IN /\ invalid
                  => /\ store' = store
                     /\ ~lastOp'.ok
                     /\ lastOp'.message \in {"enterItemId", "enterItemName",
                                              "itemIdNumbersOnly", "itemIdAlreadyExists"}
             /\ store' # store
                  => /\ ~invalid
                     /\ itemId \in DOMAIN store'
                     /\ store'[itemId].category = "unsaved"
                     /\ store'[itemId].currentPageId = page]_vars

\* C25: the write of a call installs the collection the call read earlier,
\* with the call's own change, whatever the store holds by then, and the call
\* returns true; so a change another writer made between the call's read and
\* its write is absent from the stored collection although both calls report
\* success.
C25_StaleWriteWins ==
  [][\A w \in Writers :
       (calls[w].pc = "set" /\ calls'[w].pc = "done")
         => /\ calls'[w].ret
            /\ IF calls[w].method = "cleanupAllEditingItems"
                 THEN store' = cleanupAllEditingItems(calls[w].allItems, {})
                 ELSE Remove(store', calls[w].itemId)
                        = Remove(calls[w].allItems, calls[w].itemId)]_vars

\* C25 witness: two writers each made one saveItem call for another id, both
\* calls returned true, and the item of one of them is not stored
C25_Witness ==
  /\ \A w \in Writers :
       /\ calls[w].pc = "done" /\ calls[w].ret /\ calls[w].made = 1
       /\ calls[w].method = "saveItem"
  /\ calls["A"].itemId # calls["B"].itemId
  /\ calls["A"].itemId \notin DOMAIN store
  /\ calls["B"].itemId \in DOMAIN store

\* the other writer
Other(w) == CHOOSE v \in Writers : v # w

\* writer w's call is a category transition of item id that has returned true
TransitionDone(w, id) ==
  /\ calls[w].pc = "done" /\ calls[w].ret
  /\ calls[w].method = "updateItem" /\ calls[w].data \in Transitions
  /\ calls[w].itemId = id

\* C28: when the write of a name edit of a stored item is served after a
\* category transition of the same item has completed, the item keeps the category, currentPageId
\* and previousCategory it has in the store: the name edit changes the name
\* only, however the storage steps of the two calls alternated.
C28_NameEditKeepsCategory ==
  [][\A w \in Writers :
       (/\ calls[w].pc = "set" /\ calls'[w].pc = "done"
        /\ calls[w].method = "updateItem" /\ calls[w].data = NameUpdate
        /\ calls[w].existingItem # Null
        /\ calls[w].itemId \in DOMAIN store
        /\ TransitionDone(Other(w), calls[w].itemId))
         => LET before == store[calls[w].itemId]
                after == store'[calls[w].itemId]
            IN /\ after.category = before.category
               /\ after.currentPageId = before.currentPageId
               /\ after.previousCategory = before.previousCategory]_vars

\* the input events after the id-th that are of the same entity and came less
\* than the debounce delay after it
Superseding(id) ==
  {m \in DOMAIN typing.edits :
     /\ m > id
     /\ typing.edits[m].entity = typing.edits[id].entity
     /\ typing.edits[m].at - typing.edits[id].at < DebounceInput}

\* C26: a name is written only when no later edit of the same entity came
\* less than the debounce delay after it, it is written once, and not before
\* the delay has passed since its edit; an armed timer is disarmed only by
\* its own firing or by an edit of the same entity.
C26_Debounced ==
  /\ [](\A k \in DOMAIN typing.writes :
          LET write == typing.writes[k]
          IN /\ Superseding(write.id) = {}
             /\ write.at >= typing.edits[write.id].at + DebounceInput
             /\ \A m \in DOMAIN typing.writes : typing.writes[m].id = write.id => m = k)
  /\ [][\A timer \in typing.timers :
          timer \notin typing'.timers
            => \/ timer.id \in typing'.running
               \/ /\ Len(typing'.edits) = Len(typing.edits) + 1
                  /\ typing'.edits[Len(typing'.edits)].entity
                       = typing.edits[timer.id].entity]_vars

\* the number of the storage call that reads the collection in a write method
CollectionRead(kind) == IF kind = "updateItem" THEN 2 ELSE 1

\* C27: when the read of the collection inside saveItem, updateItem or
\* deleteItem fails, every stored item other than the one the call is for is
\* stored afterwards as it was.
C27_FailedReadLosesNothing ==
  [][(/\ lastOp'.kind \in {"saveItem", "updateItem", "deleteItem"}
      /\ CollectionRead(lastOp'.kind) \in lastOp'.F)
       => \A other \in DOMAIN store \ {lastOp'.itemId} :
            other \in DOMAIN store' /\ store'[other] = store[other]]_vars

\* C29: when handleItemFetch has finished, each item it was given is either
\* one it found stored and skipped, or stored as unsaved with the current
\* page as currentPageId, or listed in failedItems, and not both skipped and
\* listed.
C29_EveryItemAccounted ==
  [][lastOp'.kind = "fetch"
       => \A id \in Range(lastOp'.itemsToFetch) :
            LET skipped == id \in lastOp'.skipped /\ id \in DOMAIN store
                listed == id \in lastOp'.failedItems
                added == /\ id \notin lastOp'.skipped
                         /\ id \notin lastOp'.failedItems
                         /\ id \in DOMAIN store'
                         /\ store'[id].category = "unsaved"
                         /\ store'[id].currentPageId = page
            IN (skipped \/ listed \/ added) /\ ~(skipped /\ listed)]_vars


\* C30: a JSON item import, in skip and in replace mode, removes no stored
\* item and leaves the category, currentPageId and previousCategory of every
\* item stored before it as they were; in skip mode the records stored before
\* it are unchanged; a record under an id new to the store has category saved
C30_ImportFrame ==
  [][lastOp'.kind = "import" =>
       /\ \A id \in DOMAIN store :
            /\ id \in DOMAIN store'
            /\ store'[id].category = store[id].category
            /\ store'[id].currentPageId = store[id].currentPageId
            /\ store'[id].previousCategory = store[id].previousCategory
            /\ lastOp'.mergeMode = "skip" => store'[id] = store[id]
       /\ \A id \in DOMAIN store' \ DOMAIN store : store'[id].category = "saved"]_vars
====
